---- MODULE Spec2Model ----
(***************************************************************************)
(* A model of the NETCONF client session of netconf-async:                 *)
(* Connection (connection.rs) driving a Transport whose framer             *)
(* (framer/async_framer.rs) frames every message in the mode its upgraded  *)
(* flag selects.  One session, its peer and its owner are modelled; every  *)
(* I/O outcome (a write or a read that fails, the text the peer answers    *)
(* with) is an input chosen by the environment.                            *)
(***************************************************************************)
EXTENDS Integers, Sequences, FiniteSets, TLC

(***************************************************************************)
(* Bounds of the model.                                                    *)
(***************************************************************************)
\* Public operations the owner calls on one Connection.
MaxOps == 3
\* rpc-error records in one reply.
MaxErrors == 2
\* Messages the notification loop hands to the sink.
MaxNotif == 2

(***************************************************************************)
(* Values.                                                                 *)
(***************************************************************************)
\* Option<T>: None is the empty sequence, Some(x) the sequence <<x>>.
None == << >>
Some(x) == << x >>

NETCONF_BASE_10_CAP == "urn:ietf:params:netconf:base:1.0"
NETCONF_BASE_11_CAP == "urn:ietf:params:netconf:base:1.1"
\* A capability a peer may advertise besides the two bases: it differs from
\* base:1.1 only by a suffix.
BASE_11_SUFFIXED == "urn:ietf:params:netconf:base:1.1?x"
PeerCapabilities ==
  {NETCONF_BASE_10_CAP, NETCONF_BASE_11_CAP, BASE_11_SUFFIXED}

\* The hello texts a peer can answer with: wf says whether the text decodes
\* as a Hello; caps and sid are what capabilities/capability[*] and
\* session-id hold.
PeerHellos ==
  [wf : {TRUE}, caps : SUBSET PeerCapabilities, sid : {None, Some(69)}]
  \cup [wf : {FALSE}, caps : {{}}, sid : {None}]

\* Hello::new: the client always advertises base:1.0 and base:1.1.
HelloNew ==
  [xmlns |-> "urn:ietf:params:xml:ns:netconf:base:1.0",
   capabilities |-> {NETCONF_BASE_10_CAP, NETCONF_BASE_11_CAP},
   session_id |-> None]

\* from_str::<Hello>: Ok with the decoded Hello, or a decode error.
HelloFromStr(h) ==
  IF h.wf
    THEN [ok |-> TRUE,
          hello |-> [capabilities |-> h.caps, session_id |-> h.sid]]
    ELSE [ok |-> FALSE,
          hello |-> [capabilities |-> {}, session_id |-> None]]

\* Faulty variant: matches any capability that starts like the one asked for.
has_capability_prefix(hello, capability) ==
  \E cap \in hello.capabilities :
     \/ cap = capability
     \/ capability = NETCONF_BASE_11_CAP /\ cap = BASE_11_SUFFIXED

\* Hello::has_capability: some capability equals the given string.
has_capability(hello, capability) ==
  \E cap \in hello.capabilities : cap = capability

\* The message-id an Rpc is given (Uuid::new_v4), and the message-ids a
\* peer can put in a reply: that of the request, or another.
REQUEST_ID == "uuid"
MessageIds == {REQUEST_ID, "other"}

\* The reply texts a peer can answer an rpc with.  wf: the text decodes as an
\* RpcReply; nerr: its rpc-error records; okmark: it holds <ok/>; form:
\* "canonical" when the text is byte for byte what Display for RpcReply
\* prints, "other" when it is not (a <data> child, an xmlns, other spacing);
\* mid: its message-id, one of ids.
ReplyTextsWith(ids) ==
  [wf : {TRUE}, nerr : 0..MaxErrors, okmark : BOOLEAN,
   form : {"canonical", "other"}, mid : ids]
  \cup [wf : {FALSE}, nerr : 0..1, okmark : {FALSE}, form : {"other"},
         mid : {REQUEST_ID}]

\* The reply texts of a peer that answers with the message-id of the
\* request.
ReplyTexts == ReplyTextsWith({REQUEST_ID})

NoReply == [message_id |-> "", rpc_error |-> None, ok |-> None]

\* from_str::<RpcReply>: Ok with the decoded reply, or a decode error.
\* rpc_error is Some(records) when the text holds at least one rpc-error.
ReplyFromStr(t) ==
  IF t.wf
    THEN [ok |-> TRUE,
          reply |-> [message_id |-> t.mid,
                     rpc_error |-> IF t.nerr > 0 THEN Some(t.nerr) ELSE None,
                     ok |-> IF t.okmark THEN Some(TRUE) ELSE None]]
    ELSE [ok |-> FALSE, reply |-> NoReply]

\* Display for RpcReply: the re-serialised form of a decoded reply.
ReplyToString(reply) ==
  [wf |-> TRUE,
   nerr |-> IF reply.rpc_error = None THEN 0 ELSE reply.rpc_error[1],
   okmark |-> reply.ok # None,
   form |-> "canonical",
   mid |-> reply.message_id]

\* RpcReply::is_ok
is_ok(reply) == reply.ok # None /\ reply.rpc_error = None

\* Faulty variant: a reply counts as failed when it lacks <ok/>.
has_errors_not_ok(reply) == reply.ok = None

\* RpcReply::has_errors
has_errors(reply) == reply.rpc_error # None

\* The values an operation returns: NetconfClientResult<String>.
Ok(text) == [tag |-> "Ok", text |-> Some(text), reply |-> NoReply]
ErrIo == [tag |-> "Io", text |-> None, reply |-> NoReply]
ErrSerializingFailure ==
  [tag |-> "SerializingFailure", text |-> None, reply |-> NoReply]
ErrNetconf(reply) == [tag |-> "Netconf", text |-> None, reply |-> reply]
ErrAnyhow == [tag |-> "Anyhow", text |-> None, reply |-> NoReply]
OkUnit == [tag |-> "OkUnit", text |-> None, reply |-> NoReply]
Pending == [tag |-> "pending", text |-> None, reply |-> NoReply]
NoResult == [tag |-> "none", text |-> None, reply |-> NoReply]
IsErr(res) == res.tag \in {"Io", "SerializingFailure", "Netconf", "Anyhow"}

\* Faulty variant: the decoded reply is printed again and that text returned.
run_rpc_reserialised(skip, response) ==
  IF skip
    THEN Ok(response)
    ELSE LET d == ReplyFromStr(response) IN
         IF ~d.ok THEN ErrSerializingFailure
         ELSE IF has_errors(d.reply) THEN ErrNetconf(d.reply)
         ELSE Ok(ReplyToString(d.reply))

\* Faulty variant: a reply with another message-id than the request's is
\* refused.
run_rpc_matched(skip, response) ==
  IF ~skip
    THEN LET d == ReplyFromStr(response) IN
         IF ~d.ok THEN ErrSerializingFailure
         ELSE IF d.reply.message_id # REQUEST_ID THEN ErrAnyhow
         ELSE IF has_errors(d.reply) THEN ErrNetconf(d.reply)
         ELSE Ok(response)
    ELSE Ok(response)

\* Connection::run_rpc after write_and_receive returned Ok(response).
run_rpc_result(skip, response) ==
  IF ~skip
    THEN LET d == ReplyFromStr(response) IN
         IF ~d.ok THEN ErrSerializingFailure
         ELSE IF has_errors(d.reply) THEN ErrNetconf(d.reply)
         ELSE Ok(response)
    ELSE Ok(response)

\* The framing a read or a write uses: sampled from the upgraded flag.
FramingMode(up) == IF up THEN "1.1" ELSE "1.0"

\* The envelopes of the public operations.
Envelopes ==
  {"get-config", "get", "validate", "commit", "confirmed-commit",
   "close-session", "kill-session", "create-subscription"}
ClosingEnvelopes == {"close-session", "kill-session"}

NoIo ==
  [ev |-> "none", kind |-> "none", mode |-> "1.0", ok |-> FALSE,
   text |-> None, by |-> "none", postclose |-> FALSE]

(***************************************************************************)
(* State.                                                                  *)
(***************************************************************************)
VARIABLES
  pc,               \* where the session's owner is: "start" (Connection::new
                    \* called), "hello_read", "unwind" (new failed, its
                    \* Connection about to be dropped), "idle" (a Connection
                    \* exists, no operation in flight), "rpc_read" (request
                    \* written, reply awaited), "notif" (receive loop),
                    \* "gone" (the Connection was dropped)
  new_result,       \* what Connection::new returned: "pending", "Ok", "Err"
  session_id,       \* Connection.session_id: Option<u64>
  skip_serializing, \* Connection.skip_serializing
  is_closed,        \* Connection.is_closed
  upgraded,         \* AsyncFramer.upgraded
  cur,              \* envelope of the operation in flight, or "none"
  in_drop,          \* the operation in flight was started by Drop
  result,           \* what the last public operation returned to its caller
  receiver_open,    \* the sink's receiving end is still there
  sunk,             \* messages the sink accepted
  hello_response,   \* the peer's hello as read_async returned it
  \* History, read by the properties only.
  hello_io,         \* outcome of the hello write, read and decoding
  last_io,          \* the last framer call: write_async or read_async
  unread,           \* request frames written whose reply was not read yet
  rpc_writes,       \* rpc envelopes handed to write_async so far
  calls,            \* public operations called so far
  close_called,     \* close_session or kill_session was called by the owner
  sent_close,       \* a close-session or kill-session frame was written
  pre,              \* <<is_closed, session_id, upgraded, skip_serializing>>
                    \* when the last public operation was called
  drop_io,          \* [ran, was_closed, called, writes_before,
                    \* result_before]: what Drop found when it started
  logged            \* errors Drop logged

vars ==
  <<pc, new_result, session_id, skip_serializing, is_closed, upgraded, cur,
    in_drop, result, receiver_open, sunk, hello_response, hello_io, last_io, unread,
    rpc_writes, calls, close_called, sent_close, pre, drop_io, logged>>

sink_vars == <<receiver_open, sunk>>
hello_vars == <<hello_response, hello_io>>
call_vars == <<calls, close_called, pre>>
rpc_vars == <<cur, in_drop, unread, rpc_writes, sent_close>>

\* Connection::new builds the Connection (connection.rs 32-37) over a fresh
\* AsyncFramer (async_framer.rs 19-25) and calls hello.
Init ==
  /\ pc = "start"
  /\ new_result = "pending"
  /\ session_id = None
  /\ skip_serializing = FALSE
  /\ is_closed = FALSE
  /\ upgraded = FALSE
  /\ cur = "none"
  /\ in_drop = FALSE
  /\ result = NoResult
  /\ receiver_open = TRUE
  /\ sunk = 0
  /\ hello_response = None
  /\ hello_io = [w |-> "none", r |-> "none", d |-> "none"]
  /\ last_io = NoIo
  /\ unread = 0
  /\ rpc_writes = 0
  /\ calls = 0
  /\ close_called = FALSE
  /\ sent_close = FALSE
  /\ pre = <<FALSE, None, FALSE, FALSE>>
  /\ drop_io = [ran |-> FALSE, was_closed |-> FALSE, called |-> FALSE,
                writes_before |-> 0, result_before |-> NoResult]
  /\ logged = 0

(***************************************************************************)
(* The framer, as the session sees it.                                     *)
(***************************************************************************)
\* Faulty variant: a failed read resets the framer to 1.0.
read_async_resetting(kind, by, ok, text) ==
  /\ last_io' = [ev |-> "read", kind |-> kind,
                 mode |-> FramingMode(upgraded), ok |-> ok,
                 text |-> IF ok THEN text ELSE None, by |-> by,
                 postclose |-> sent_close]
  /\ upgraded' = (ok /\ upgraded)

\* AsyncFramer::read_async: reads one message in the mode of the flag; ok
\* says whether every channel read succeeded and the framing was well
\* formed, text is the message returned then.
read_async(kind, by, ok, text) ==
  /\ last_io' = [ev |-> "read", kind |-> kind,
                 mode |-> FramingMode(upgraded), ok |-> ok,
                 text |-> IF ok THEN text ELSE None, by |-> by,
                 postclose |-> sent_close]
  /\ upgraded' = upgraded

\* AsyncFramer::write_async: writes rpc framed in the mode of the flag; ok
\* says whether every write_all succeeded.
write_async(rpc, by, ok) ==
  /\ last_io' = [ev |-> "write", kind |-> rpc,
                 mode |-> FramingMode(upgraded), ok |-> ok,
                 text |-> None, by |-> by, postclose |-> sent_close]
  /\ upgraded' = upgraded

\* AsyncFramer::upgrade: stores true.
upgrade(up) == TRUE

(***************************************************************************)
(* Connection::new and Connection::hello.                                  *)
(***************************************************************************)
\* Faulty variant: the client, which advertises base:1.1, switches its framer as
\* soon as its own hello is written.
new_hello_write_eager ==
  /\ pc = "start"
  /\ \E ok \in BOOLEAN :
       /\ last_io' = [ev |-> "write", kind |-> "hello",
                      mode |-> FramingMode(upgraded), ok |-> ok,
                      text |-> None, by |-> "new", postclose |-> sent_close]
       /\ upgraded' = upgrade(upgraded)
       /\ hello_io' = [hello_io EXCEPT !.w = IF ok THEN "ok" ELSE "fail"]
       /\ pc' = IF ok THEN "hello_read" ELSE "unwind"
  /\ UNCHANGED <<new_result, session_id, skip_serializing, is_closed, result,
                 sink_vars, hello_response, rpc_vars, call_vars, drop_io,
                 logged>>

\* hello, up to the end of the frame write of write_and_receive.
new_hello_write ==
  /\ pc = "start"
  /\ \E ok \in BOOLEAN :
       /\ write_async("hello", "new", ok)
       /\ hello_io' = [hello_io EXCEPT !.w = IF ok THEN "ok" ELSE "fail"]
       /\ pc' = IF ok THEN "hello_read" ELSE "unwind"
  /\ UNCHANGED <<new_result, session_id, skip_serializing, is_closed, result,
                 sink_vars, hello_response, rpc_vars, call_vars, drop_io,
                 logged>>

\* hello, the frame read of write_and_receive.
new_hello_read ==
  /\ pc = "hello_read"
  /\ \E ok \in BOOLEAN, h \in PeerHellos :
       /\ read_async("hello", "new", ok, None)
       /\ hello_response' = IF ok THEN Some(h) ELSE None
       /\ hello_io' = [hello_io EXCEPT !.r = IF ok THEN "ok" ELSE "fail"]
       /\ pc' = IF ok THEN "hello_decode" ELSE "unwind"
  /\ UNCHANGED <<new_result, session_id, skip_serializing, is_closed, result,
                 sink_vars, rpc_vars, call_vars, drop_io, logged>>

\* Faulty variant: a hello that does not decode counts as a hello without
\* capabilities, and new returns its Connection.
new_hello_decode_lenient ==
  /\ pc = "hello_decode"
  /\ LET d == HelloFromStr(hello_response[1]) IN
       /\ hello_io' = [hello_io EXCEPT !.d = IF d.ok THEN "ok" ELSE "fail"]
       /\ upgraded' = IF has_capability(d.hello, NETCONF_BASE_11_CAP)
                        THEN upgrade(upgraded) ELSE upgraded
       /\ session_id' = d.hello.session_id
       /\ new_result' = "Ok"
       /\ pc' = "idle"
  /\ UNCHANGED <<skip_serializing, is_closed, result, sink_vars,
                 hello_response, last_io, rpc_vars, call_vars, drop_io,
                 logged>>

\* hello, from the decoding of the response to new's Ok(conn).
new_hello_decode ==
  /\ pc = "hello_decode"
  /\ LET d == HelloFromStr(hello_response[1]) IN
       /\ hello_io' = [hello_io EXCEPT !.d = IF d.ok THEN "ok" ELSE "fail"]
       /\ IF d.ok
            THEN /\ upgraded' = IF has_capability(d.hello, NETCONF_BASE_11_CAP)
                                  THEN upgrade(upgraded) ELSE upgraded
                 /\ session_id' = d.hello.session_id
                 /\ new_result' = "Ok"
                 /\ pc' = "idle"
            ELSE /\ pc' = "unwind"
                 /\ UNCHANGED <<upgraded, session_id, new_result>>
  /\ UNCHANGED <<skip_serializing, is_closed, result, sink_vars,
                 hello_response, last_io, rpc_vars, call_vars, drop_io,
                 logged>>

\* Connection::set_skip_serializing
set_skip_serializing ==
  /\ pc = "idle"
  /\ ~skip_serializing
  /\ skip_serializing' = TRUE
  /\ UNCHANGED <<pc, new_result, session_id, is_closed, upgraded, result,
                 sink_vars, hello_vars, last_io, rpc_vars, call_vars, drop_io,
                 logged>>

(***************************************************************************)
(* The RPC operations.                                                     *)
(***************************************************************************)
\* Faulty variant: notification goes on into the receive loop whatever its
\* create-subscription came to.
Return_into_loop(by, envelope, res) ==
  IF by = "drop"
    THEN /\ pc' = "gone"
         /\ logged' = logged + (IF IsErr(res) THEN 1 ELSE 0)
         /\ new_result' = IF new_result = "pending" THEN "Err" ELSE new_result
         /\ cur' = "none"
         /\ in_drop' = FALSE
         /\ UNCHANGED result
    ELSE /\ IF envelope = "create-subscription"
              THEN pc' = "notif" /\ result' = Pending /\ cur' = envelope
              ELSE pc' = "idle" /\ result' = res /\ cur' = "none"
         /\ in_drop' = FALSE
         /\ UNCHANGED <<logged, new_result>>

\* An operation hands res to whoever started it.  The owner gets it as the
\* operation's result, and a successful create-subscription goes on into the
\* receive loop (notification, connection.rs 141-142).  Drop logs an error
\* and returns nothing (connection.rs 196-198); when it ran because new
\* failed, new returns its error now.
Return(by, envelope, res) ==
  IF by = "drop"
    THEN /\ pc' = "gone"
         /\ logged' = logged + (IF IsErr(res) THEN 1 ELSE 0)
         /\ new_result' = IF new_result = "pending" THEN "Err" ELSE new_result
         /\ cur' = "none"
         /\ in_drop' = FALSE
         /\ UNCHANGED result
    ELSE /\ IF envelope = "create-subscription" /\ ~IsErr(res)
              THEN pc' = "notif" /\ result' = Pending /\ cur' = envelope
              ELSE pc' = "idle" /\ result' = res /\ cur' = "none"
         /\ in_drop' = FALSE
         /\ UNCHANGED <<logged, new_result>>

\* Faulty variant: an envelope whose frame write failed is written once
\* more.
run_rpc_write_retrying(envelope, by) ==
  \E first \in BOOLEAN, again \in BOOLEAN :
    LET ok == first \/ again IN
    /\ write_async(envelope, by, ok)
    /\ rpc_writes' = rpc_writes + (IF first THEN 1 ELSE 2)
    /\ unread' = IF ok THEN unread + 1 ELSE unread
    /\ sent_close' = (sent_close \/ (ok /\ envelope \in ClosingEnvelopes))
    /\ IF ok
         THEN /\ pc' = "rpc_read"
              /\ cur' = envelope
              /\ in_drop' = (by = "drop")
              /\ result' = IF by = "drop" THEN result ELSE Pending
              /\ UNCHANGED <<logged, new_result>>
         ELSE Return(by, envelope, ErrIo)

\* Connection::run_rpc up to the end of the frame write of
\* SSHTransport::write_and_receive: a failed write returns its error and no
\* read is tried.
run_rpc_write(envelope, by) ==
  \E ok \in BOOLEAN :
    /\ write_async(envelope, by, ok)
    /\ rpc_writes' = rpc_writes + 1
    /\ unread' = IF ok THEN unread + 1 ELSE unread
    /\ sent_close' = (sent_close \/ (ok /\ envelope \in ClosingEnvelopes))
    /\ IF ok
         THEN /\ pc' = "rpc_read"
              /\ cur' = envelope
              /\ in_drop' = (by = "drop")
              /\ result' = IF by = "drop" THEN result ELSE Pending
              /\ UNCHANGED <<logged, new_result>>
         ELSE Return(by, envelope, ErrIo)

\* Faulty variant: a reply that carries rpc-error marks the session closed.
run_rpc_read_closing ==
  /\ pc = "rpc_read"
  /\ \E ok \in BOOLEAN, t \in ReplyTexts :
       LET res == IF ok THEN run_rpc_result(skip_serializing, t) ELSE ErrIo IN
       /\ read_async(cur, IF in_drop THEN "drop" ELSE "user", ok, Some(t))
       /\ unread' = IF ok /\ unread > 0 THEN unread - 1 ELSE unread
       /\ is_closed' = (is_closed \/ res.tag = "Netconf")
       /\ Return(IF in_drop THEN "drop" ELSE "user", cur, res)
  /\ UNCHANGED <<session_id, skip_serializing, sink_vars, hello_vars,
                 rpc_writes, sent_close, call_vars, drop_io>>

\* Connection::run_rpc from the frame read of write_and_receive to its
\* return: the next framed message is the reply.
run_rpc_read ==
  /\ pc = "rpc_read"
  /\ \E ok \in BOOLEAN, t \in ReplyTexts :
       /\ read_async(cur, IF in_drop THEN "drop" ELSE "user", ok, Some(t))
       /\ unread' = IF ok /\ unread > 0 THEN unread - 1 ELSE unread
       /\ Return(IF in_drop THEN "drop" ELSE "user", cur,
                 IF ok THEN run_rpc_result(skip_serializing, t) ELSE ErrIo)
  /\ UNCHANGED <<session_id, skip_serializing, is_closed, sink_vars,
                 hello_vars, rpc_writes, sent_close, call_vars, drop_io>>

\* The owner calls a public operation: only on a Connection new returned,
\* and (&mut self) only when no other operation of it is in flight.
Call(envelope) ==
  /\ pc = "idle"
  /\ calls < MaxOps
  /\ calls' = calls + 1
  /\ close_called' = (close_called \/ envelope \in ClosingEnvelopes)
  /\ pre' = <<is_closed, session_id, upgraded, skip_serializing>>

\* Faulty variant: close_session without its assignment to is_closed.
close_session_unflagged(by) ==
  /\ is_closed' = is_closed
  /\ run_rpc_write("close-session", by)

\* Connection::close_session, called by the owner or by Drop.
close_session_body(by) ==
  /\ is_closed' = TRUE
  /\ run_rpc_write("close-session", by)

get_config ==
  /\ Call("get-config")
  /\ run_rpc_write("get-config", "user")
  /\ UNCHANGED <<session_id, skip_serializing, is_closed, sink_vars,
                 hello_vars, drop_io>>

get ==
  /\ Call("get")
  /\ run_rpc_write("get", "user")
  /\ UNCHANGED <<session_id, skip_serializing, is_closed, sink_vars,
                 hello_vars, drop_io>>

validate ==
  /\ Call("validate")
  /\ run_rpc_write("validate", "user")
  /\ UNCHANGED <<session_id, skip_serializing, is_closed, sink_vars,
                 hello_vars, drop_io>>

commit ==
  /\ Call("commit")
  /\ run_rpc_write("commit", "user")
  /\ UNCHANGED <<session_id, skip_serializing, is_closed, sink_vars,
                 hello_vars, drop_io>>

confirmed_commit ==
  /\ Call("confirmed-commit")
  /\ run_rpc_write("confirmed-commit", "user")
  /\ UNCHANGED <<session_id, skip_serializing, is_closed, sink_vars,
                 hello_vars, drop_io>>

close_session ==
  /\ Call("close-session")
  /\ close_session_body("user")
  /\ UNCHANGED <<session_id, skip_serializing, sink_vars, hello_vars,
                 drop_io>>

kill_session ==
  /\ Call("kill-session")
  /\ is_closed' = TRUE
  /\ run_rpc_write("kill-session", "user")
  /\ UNCHANGED <<session_id, skip_serializing, sink_vars, hello_vars,
                 drop_io>>

\* Connection::notification up to the frame write of its create-subscription;
\* the sink it is given is a fresh channel.
notification ==
  /\ Call("create-subscription")
  /\ receiver_open' = TRUE
  /\ sunk' = 0
  /\ run_rpc_write("create-subscription", "user")
  /\ UNCHANGED <<session_id, skip_serializing, is_closed, hello_vars,
                 drop_io>>

(***************************************************************************)
(* Connection::run_notification_loop.                                      *)
(***************************************************************************)
\* One turn of the loop: transport.receive, then sender.send.
notification_receive ==
  /\ pc = "notif"
  /\ \E ok \in BOOLEAN, t \in ReplyTexts :
       /\ read_async("notification", "user", ok, Some(t))
       /\ IF ~ok
            THEN /\ Return("user", "notification", ErrIo)
                 /\ UNCHANGED sunk
            ELSE IF receiver_open
              THEN /\ sunk < MaxNotif
                   /\ sunk' = sunk + 1
                   /\ UNCHANGED <<pc, result, cur, in_drop, logged,
                                  new_result>>
              ELSE /\ Return("user", "notification", ErrAnyhow)
                   /\ UNCHANGED sunk
  /\ UNCHANGED <<session_id, skip_serializing, is_closed, receiver_open,
                 hello_vars, unread, rpc_writes, sent_close, call_vars,
                 drop_io>>

\* The select's other branch: signal::ctrl_c() completed, with Ok or with an
\* io error.
notification_ctrl_c ==
  /\ pc = "notif"
  /\ \E ok \in BOOLEAN : Return("user", "notification",
                                IF ok THEN OkUnit ELSE ErrIo)
  /\ UNCHANGED <<session_id, skip_serializing, is_closed, upgraded,
                 sink_vars, hello_vars, last_io, unread, rpc_writes,
                 sent_close, call_vars, drop_io>>

\* The sink's receiving end goes away (its task ended).
receiver_dropped ==
  /\ pc = "notif"
  /\ receiver_open
  /\ receiver_open' = FALSE
  /\ UNCHANGED <<pc, new_result, session_id, skip_serializing, is_closed,
                 upgraded, cur, in_drop, result, sunk, hello_vars, last_io,
                 unread, rpc_writes, sent_close, call_vars, drop_io, logged>>

(***************************************************************************)
(* impl Drop for Connection.                                               *)
(***************************************************************************)
\* The Connection is dropped by its owner, or by new when hello failed
\* (conn goes out of scope at the ? of connection.rs 38).
drop ==
  /\ pc \in {"idle", "unwind"}
  /\ drop_io' = [ran |-> TRUE, was_closed |-> is_closed,
                 called |-> close_called, writes_before |-> rpc_writes,
                 result_before |-> result]
  /\ IF ~is_closed
       THEN close_session_body("drop")
       ELSE /\ pc' = "gone"
            /\ UNCHANGED <<is_closed, upgraded, last_io, rpc_vars, result,
                           logged, new_result>>
  /\ UNCHANGED <<session_id, skip_serializing, sink_vars, hello_vars,
                 call_vars>>

(***************************************************************************)
(* The notification command of one host task: Connection::notification,    *)
(* its receive loop, the channel to the sink, and the end of the task.     *)
(***************************************************************************)
\* Notifications the peer emits during one subscription.
MaxStream == 3

\* channel::<String>(1) in notification::exec.
ChannelCapacity == 1

VARIABLES
  task,        \* where the host task is: "call" (notification called),
               \* "reply" (create-subscription written, reply awaited),
               \* "receive" (loop, in transport.receive), "send" (loop, in
               \* sender.send), "returned" (notification returned),
               \* "closed" (close_session returned), "ended" (the
               \* Connection was dropped)
  conn_closed, \* Connection.is_closed of this session
  resp,        \* the message sender.send is handing over: Option
  channel,     \* messages queued in the channel between loop and sink
  rx,          \* the receiving end of the channel: "open" or "dropped"
  transport,   \* the peer's stream: "up", or "failed" (reads return Err)
  ctrl_c,      \* the signal::ctrl_c future: "pending", "fired" (resolved
               \* Ok), "failed" (resolved Err)
  outcome,     \* what notification returned
  \* History, read by the properties only.
  received,    \* messages transport.receive returned inside the loop
  sent,        \* messages sender.send accepted
  delivered,   \* messages rx.recv returned to the sink's task
  written,     \* envelopes handed to the transport for writing
  entered,     \* the create-subscription reply was read and accepted
  cause        \* why the loop returned

notif_vars ==
  <<task, conn_closed, resp, channel, rx, transport, ctrl_c, outcome,
    received, sent, delivered, written, entered, cause>>

loop_vars == <<resp, channel, received, sent, delivered>>
env_vars == <<rx, transport, ctrl_c>>

LoopTasks == {"receive", "send"}

\* A Connection after a successful Connection::new, the notification
\* command about to run on it.
NotifInit ==
  /\ task = "call"
  /\ conn_closed = FALSE
  /\ resp = None
  /\ channel = << >>
  /\ rx = "open"
  /\ transport = "up"
  /\ ctrl_c = "pending"
  /\ outcome = Pending
  /\ received = << >>
  /\ sent = << >>
  /\ delivered = << >>
  /\ written = << >>
  /\ entered = FALSE
  /\ cause = "none"

\* The loop's value becomes notification's value (connection.rs 143).
loop_returns(res, why) ==
  /\ task' = "returned"
  /\ outcome' = res
  /\ cause' = why
  /\ resp' = None

\* Connection::notification up to the write of run_rpc: the
\* create-subscription envelope goes to write_async; a failed write
\* returns the error.
subscribe_write ==
  /\ task = "call"
  /\ written' = Append(written, "create-subscription")
  /\ \E ok \in BOOLEAN :
       IF ok /\ transport = "up"
         THEN task' = "reply" /\ UNCHANGED outcome
         ELSE task' = "returned" /\ outcome' = ErrIo
  /\ UNCHANGED <<conn_closed, loop_vars, env_vars, entered, cause>>

\* The rest of run_rpc and the `?` of notification: a failed read, an
\* undecodable reply or a reply with rpc-error returns the error; any other
\* reply starts run_notification_loop.
subscribe_reply ==
  /\ task = "reply"
  /\ \E text \in ReplyTexts :
       LET res == IF transport = "up" THEN run_rpc_result(FALSE, text)
                                      ELSE ErrIo IN
       IF IsErr(res)
         THEN task' = "returned" /\ outcome' = res /\ UNCHANGED entered
         ELSE task' = "receive" /\ entered' = TRUE /\ UNCHANGED outcome
  /\ UNCHANGED <<conn_closed, loop_vars, env_vars, written, cause>>

\* transport.receive returned Ok(resp): the peer's next notification.
loop_receive ==
  /\ task = "receive"
  /\ transport = "up"
  /\ Len(received) < MaxStream
  /\ LET msg == Len(received) + 1 IN
       /\ received' = Append(received, msg)
       /\ resp' = Some(msg)
  /\ task' = "send"
  /\ UNCHANGED <<conn_closed, channel, sent, delivered, env_vars, outcome,
                 written, entered, cause>>

\* transport.receive returned Err: break Err(err).
loop_receive_err ==
  /\ task = "receive"
  /\ transport = "failed"
  /\ loop_returns(ErrIo, "read")
  /\ UNCHANGED <<conn_closed, channel, received, sent, delivered, env_vars,
                 written, entered>>

\* Faulty variant: a message that finds the channel full is skipped.
loop_send_lossy ==
  /\ task = "send"
  /\ rx = "open"
  /\ IF Len(channel) < ChannelCapacity
       THEN channel' = Append(channel, resp[1]) /\ sent' = Append(sent, resp[1])
       ELSE UNCHANGED <<channel, sent>>
  /\ resp' = None
  /\ task' = "receive"
  /\ UNCHANGED <<conn_closed, received, delivered, env_vars, outcome,
                 written, entered, cause>>

\* sender.send(resp) returned Ok: the channel had room and took the message.
loop_send ==
  /\ task = "send"
  /\ rx = "open"
  /\ Len(channel) < ChannelCapacity
  /\ channel' = Append(channel, resp[1])
  /\ sent' = Append(sent, resp[1])
  /\ resp' = None
  /\ task' = "receive"
  /\ UNCHANGED <<conn_closed, received, delivered, env_vars, outcome,
                 written, entered, cause>>

\* Faulty variant: a rejected message is given up and the loop goes on.
loop_send_err_ignored ==
  /\ task = "send"
  /\ rx = "dropped"
  /\ resp' = None
  /\ task' = "receive"
  /\ UNCHANGED <<conn_closed, channel, received, sent, delivered, env_vars,
                 outcome, written, entered, cause>>

\* sender.send(resp) returned Err, the receiver is gone: break with the
\* "send error".
loop_send_err ==
  /\ task = "send"
  /\ rx = "dropped"
  /\ loop_returns(ErrAnyhow, "sink")
  /\ UNCHANGED <<conn_closed, channel, received, sent, delivered, env_vars,
                 written, entered>>

\* The first branch of select!: the ctrl_c future resolved, Ok(()) on the
\* signal and Err(Io) when the signal listener failed.  The other branch is
\* dropped with whatever message it was handing over.
loop_ctrl_c ==
  /\ task \in LoopTasks
  /\ ctrl_c # "pending"
  /\ IF ctrl_c = "fired"
       THEN loop_returns(OkUnit, "interrupt")
       ELSE loop_returns(ErrIo, "signal")
  /\ UNCHANGED <<conn_closed, channel, received, sent, delivered, env_vars,
                 written, entered>>

\* The sink's task: rx.recv returned Some(msg), which is logged.
rx_recv ==
  /\ rx = "open"
  /\ channel # << >>
  /\ delivered' = Append(delivered, Head(channel))
  /\ channel' = Tail(channel)
  /\ UNCHANGED <<task, conn_closed, resp, env_vars, outcome, received, sent,
                 written, entered, cause>>

\* The owner of the receiving end drops it; queued messages go with it.
rx_dropped ==
  /\ rx = "open"
  /\ rx' = "dropped"
  /\ channel' = << >>
  /\ UNCHANGED <<task, conn_closed, resp, transport, ctrl_c, outcome,
                 received, sent, delivered, written, entered, cause>>

\* The peer's stream breaks: every later read returns Err.
transport_fails ==
  /\ transport = "up"
  /\ task # "ended"
  /\ transport' = "failed"
  /\ UNCHANGED <<task, conn_closed, loop_vars, rx, ctrl_c, outcome, written,
                 entered, cause>>

\* The interrupt signal arrives, or listening for it fails.
ctrl_c_resolves ==
  /\ ctrl_c = "pending"
  /\ task # "ended"
  /\ ctrl_c' \in {"fired", "failed"}
  /\ UNCHANGED <<task, conn_closed, loop_vars, rx, transport, outcome,
                 written, entered, cause>>

\* The host task after the handler returned Ok (cli.rs 52-53):
\* connection.close_session sets is_closed and writes close-session.
task_close_session ==
  /\ task = "returned"
  /\ ~IsErr(outcome)
  /\ conn_closed' = TRUE
  /\ written' = Append(written, "close-session")
  /\ task' = "closed"
  /\ UNCHANGED <<loop_vars, env_vars, outcome, entered, cause>>

\* The Connection goes out of scope, after the `?` of cli.rs 50 or at the
\* end of the task: Drop writes close-session unless is_closed is set.
connection_drop ==
  /\ \/ task = "returned" /\ IsErr(outcome)
     \/ task = "closed"
  /\ IF conn_closed
       THEN UNCHANGED <<conn_closed, written>>
       ELSE /\ conn_closed' = TRUE
            /\ written' = Append(written, "close-session")
  /\ task' = "ended"
  /\ UNCHANGED <<loop_vars, env_vars, outcome, entered, cause>>

(***************************************************************************)
(* The driver: exec of cli.rs, one spawned task per host, each with its    *)
(* own Connection.                                                         *)
(***************************************************************************)
\* Hosts on the command line.
MaxHosts == 2

Hosts == 1..MaxHosts

\* The hellos the peers of the hosts answer with: base:1.0 alone or with
\* base:1.1, and one of two session ids.
DriverHellos ==
  [wf : {TRUE},
   caps : {{NETCONF_BASE_10_CAP}, {NETCONF_BASE_10_CAP, NETCONF_BASE_11_CAP}},
   sid : {Some(101), Some(102)}]

VARIABLES
  driver,  \* exec itself: [pc, next, futures, collected, result, rejected].
           \* pc: "fanout" (the for loop, about to handle host `next`),
           \* "collect" (the while loop over futures), "returned".
           \* futures: hosts whose JoinHandle was pushed; collected: hosts
           \* whose result futures.next() yielded; rejected: the host
           \* Host::new refused, 0 when none
  tasks    \* per host, the spawned task and the Connection it owns:
           \* [pc, session_id, is_closed, upgraded, read_buffer, result,
           \* constructed, closes, hello_id].  pc: "unspawned", "connect",
           \* "transport", "hello", "handler", "close", "drop", "ended".
           \* read_buffer: the hosts whose peers' bytes the framer holds.
           \* closes: close-session envelopes written; hello_id: the
           \* session id the host's own peer sent

driver_vars == <<driver, tasks>>

NoTask ==
  [pc |-> "unspawned", session_id |-> None, is_closed |-> FALSE,
   upgraded |-> FALSE, read_buffer |-> << >>, result |-> "none",
   constructed |-> FALSE, closes |-> 0, hello_id |-> None]

DriverInit ==
  /\ driver = [pc |-> "fanout", next |-> 1, futures |-> {}, collected |-> {},
               result |-> "none", rejected |-> 0]
  /\ tasks = [h \in Hosts |-> NoTask]

\* The task of host h ends with result res; its Connection, if any, was
\* dropped before.
task_ends(h, res) ==
  tasks' = [tasks EXCEPT ![h].pc = "ended", ![h].result = res]

\* One turn of the for loop of exec (cli.rs 19-57): Host::new on the
\* host's parameters, whose error returns from exec, then tokio::spawn and
\* futures.push.
fanout ==
  /\ driver.pc = "fanout"
  /\ driver.next \in Hosts
  /\ LET h == driver.next IN
       \E accepted \in BOOLEAN :
          IF accepted
            THEN /\ tasks' = [tasks EXCEPT ![h].pc = "connect"]
                 /\ driver' = [driver EXCEPT !.futures = @ \cup {h},
                                             !.next = @ + 1,
                                             !.pc = IF h = MaxHosts
                                                      THEN "collect"
                                                      ELSE "fanout"]
            ELSE /\ driver' = [driver EXCEPT !.pc = "returned",
                                             !.result = "Err",
                                             !.rejected = h]
                 /\ UNCHANGED tasks

\* Faulty variant: the first task error ends the collecting loop and exec.
collect_until_error ==
  /\ driver.pc = "collect"
  /\ \E h \in driver.futures \ driver.collected :
       /\ tasks[h].pc = "ended"
       /\ IF tasks[h].result = "Err"
            THEN driver' = [driver EXCEPT !.collected = @ \cup {h},
                                          !.pc = "returned",
                                          !.result = "Err"]
            ELSE driver' = [driver EXCEPT !.collected = @ \cup {h}]
  /\ UNCHANGED tasks

\* futures.next() yields the handle of a task that ended (cli.rs 59-70):
\* its result is logged, whatever it is.
collect ==
  /\ driver.pc = "collect"
  /\ \E h \in driver.futures \ driver.collected :
       /\ tasks[h].pc = "ended"
       /\ driver' = [driver EXCEPT !.collected = @ \cup {h}]
  /\ UNCHANGED tasks

\* futures.next() yields None: every pushed handle was yielded, exec
\* returns Ok(()).
exec_returns ==
  /\ driver.pc = "collect"
  /\ driver.collected = driver.futures
  /\ driver' = [driver EXCEPT !.pc = "returned", !.result = "Ok"]
  /\ UNCHANGED tasks

\* host.connect_ssh (cli.rs 30): TCP connect, handshake, authentication.
task_connect(h) ==
  /\ tasks[h].pc = "connect"
  /\ \E ok \in BOOLEAN :
       IF ok THEN tasks' = [tasks EXCEPT ![h].pc = "transport"]
             ELSE task_ends(h, "Err")
  /\ UNCHANGED driver

\* SSHTransport::new_with_session (cli.rs 31): the netconf channel with its
\* own AsyncFramer, read buffer empty, not upgraded.
task_transport(h) ==
  /\ tasks[h].pc = "transport"
  /\ \E ok \in BOOLEAN :
       IF ok THEN tasks' = [tasks EXCEPT ![h].pc = "hello"]
             ELSE task_ends(h, "Err")
  /\ UNCHANGED driver

\* Faulty variant: the framer flag is one flag of the process, so a hello
\* that negotiates 1.1 upgrades every session.
task_hello_shared_flag(h) ==
  /\ tasks[h].pc = "hello"
  /\ \/ \E peer \in DriverHellos, left \in BOOLEAN :
          LET d == HelloFromStr(peer)
              up == has_capability(d.hello, NETCONF_BASE_11_CAP) IN
          tasks' = [g \in Hosts |->
                      IF g = h
                        THEN [tasks[h] EXCEPT !.pc = "handler",
                                !.session_id = d.hello.session_id,
                                !.hello_id = peer.sid,
                                !.upgraded = up, !.constructed = TRUE,
                                !.read_buffer = IF left THEN <<h>> ELSE << >>]
                        ELSE [tasks[g] EXCEPT !.upgraded = @ \/ up]]
     \/ tasks' = [tasks EXCEPT ![h].pc = "drop", ![h].result = "Err"]
  /\ UNCHANGED driver

\* Connection::new (cli.rs 32): the hello exchange on the host's own
\* transport.  On success the Connection holds the session id of the hello
\* it read, and its framer is upgraded when that hello offers base:1.1;
\* the 1.0 read may leave later bytes of the same peer in the read buffer.
\* On failure the Connection built inside new is dropped and the task ends
\* with the error.
task_hello(h) ==
  /\ tasks[h].pc = "hello"
  /\ \/ \E peer \in DriverHellos, left \in BOOLEAN :
          LET d == HelloFromStr(peer) IN
          tasks' = [tasks EXCEPT ![h].pc = "handler",
                      ![h].session_id = d.hello.session_id,
                      ![h].hello_id = peer.sid,
                      ![h].upgraded =
                         has_capability(d.hello, NETCONF_BASE_11_CAP),
                      ![h].constructed = TRUE,
                      ![h].read_buffer = IF left THEN <<h>> ELSE << >>]
     \/ tasks' = [tasks EXCEPT ![h].pc = "drop", ![h].result = "Err"]
  /\ UNCHANGED driver

\* builtin_exec and the `?` after it (cli.rs 40-50): a handler that
\* returns Ok lets the task go on; an Err, or an unknown command, leaves
\* the task, which drops the Connection.
task_handler(h) ==
  /\ tasks[h].pc = "handler"
  /\ \E ok \in BOOLEAN :
       IF ok THEN tasks' = [tasks EXCEPT ![h].pc = "close"]
             ELSE tasks' = [tasks EXCEPT ![h].pc = "drop",
                                         ![h].result = "Err"]
  /\ UNCHANGED driver

\* connection.close_session().await? (cli.rs 53): is_closed is set and the
\* close-session envelope written; whatever it returns, the task leaves its
\* body and the Connection goes out of scope.
task_close(h) ==
  /\ tasks[h].pc = "close"
  /\ \E ok \in BOOLEAN :
       tasks' = [tasks EXCEPT ![h].pc = "drop", ![h].is_closed = TRUE,
                   ![h].closes = @ + 1,
                   ![h].result = IF ok THEN "Ok" ELSE "Err"]
  /\ UNCHANGED driver

\* Faulty variant: Drop writes its close-session whatever is_closed says.
task_drop_unconditional(h) ==
  /\ tasks[h].pc = "drop"
  /\ tasks' = [tasks EXCEPT ![h].pc = "ended", ![h].is_closed = TRUE,
                            ![h].closes = @ + 1]
  /\ UNCHANGED driver

\* impl Drop for Connection as the task's Connection goes out of scope:
\* close_session, which writes the envelope, unless is_closed is set.
task_drop(h) ==
  /\ tasks[h].pc = "drop"
  /\ IF tasks[h].is_closed
       THEN tasks' = [tasks EXCEPT ![h].pc = "ended"]
       ELSE tasks' = [tasks EXCEPT ![h].pc = "ended", ![h].is_closed = TRUE,
                                   ![h].closes = @ + 1]
  /\ UNCHANGED driver

(***************************************************************************)
(* The framer at the level of bytes: AsyncFramer over a byte channel.      *)
(* A byte is a one-character string, or "C3", "A9" for the two bytes of    *)
(* the character "é"; a Rust string is a sequence of characters.           *)
(***************************************************************************)
\* Bytes of one message body.
MaxLen == 3

LF == "\n"
\* U+FFFD, what from_utf8_lossy puts in place of an invalid sequence.
REPLACEMENT == "U+FFFD"

NETCONF_1_0_TERMINATOR == <<"]", "]", ">", "]", "]", ">">>

DigitChars == <<"0", "1", "2", "3", "4", "5", "6", "7", "8", "9">>

\* u8::is_ascii_digit
is_ascii_digit(b) == \E i \in 1..10 : DigitChars[i] = b

\* last_read - b'0'
DigitValue(b) == (CHOOSE i \in 1..10 : DigitChars[i] = b) - 1

\* The Display of an unsigned integer, as format! prints bytes.len().
RECURSIVE Decimal(_)
Decimal(n) ==
  IF n < 10 THEN <<DigitChars[n + 1]>>
            ELSE Decimal(n \div 10) \o <<DigitChars[(n % 10) + 1]>>

\* chunk_size is a u32, held as two 16-bit limbs: [hi, lo] is the value
\* hi * Limb + lo.
Limb == 2 ^ 16
Zero32 == [hi |-> 0, lo |-> 0]

\* chunk_size * 10 + digit in u32 arithmetic: the wrapped result and
\* whether the exact result left the range of a u32.
mul10_add(chunk_size, digit) ==
  LET lo == chunk_size.lo * 10 + digit
      hi == chunk_size.hi * 10 + lo \div Limb
  IN  [wrapped |-> [hi |-> hi % Limb, lo |-> lo % Limb],
       overflow |-> hi >= Limb]

\* chunk_size as usize bytes are among the first len bytes of a stream.
\* A stream of the model is shorter than Limb bytes.
within(chunk_size, len) == chunk_size.hi = 0 /\ chunk_size.lo <= len

\* str::as_bytes: the UTF-8 encoding, two bytes for "é", three for U+FFFD.
RECURSIVE as_bytes(_)
as_bytes(str) ==
  IF str = << >> THEN << >>
  ELSE (CASE Head(str) = "é" -> <<"C3", "A9">>
          [] Head(str) = REPLACEMENT -> <<"EF", "BF", "BD">>
          [] OTHER -> <<Head(str)>>) \o as_bytes(Tail(str))

\* Faulty variant: the number of characters, not of bytes.
chars_count(str) == Len(str)

\* bytes.len() of rpc.as_bytes()
bytes_len(str) == Len(as_bytes(str))

\* String::from_utf8_lossy: "C3" followed by "A9" decodes to "é"; a "C3"
\* without its continuation and a continuation on its own are replaced by
\* U+FFFD; every other byte here is ASCII and decodes to itself.
RECURSIVE from_utf8_lossy(_)
from_utf8_lossy(bytes) ==
  IF bytes = << >> THEN << >>
  ELSE IF Head(bytes) = "C3"
    THEN IF Len(bytes) >= 2 /\ bytes[2] = "A9"
           THEN <<"é">> \o from_utf8_lossy(Tail(Tail(bytes)))
           ELSE <<REPLACEMENT>> \o from_utf8_lossy(Tail(bytes))
  ELSE IF Head(bytes) = "A9"
    THEN <<REPLACEMENT>> \o from_utf8_lossy(Tail(bytes))
  ELSE <<Head(bytes)>> \o from_utf8_lossy(Tail(bytes))

\* char::is_whitespace, on the characters of the model.
is_whitespace(c) == c \in {" ", LF}

\* str::trim
RECURSIVE trim(_)
trim(str) ==
  IF str = << >> THEN << >>
  ELSE IF is_whitespace(Head(str)) THEN trim(Tail(str))
  ELSE IF is_whitespace(str[Len(str)])
    THEN trim(SubSeq(str, 1, Len(str) - 1))
  ELSE str

\* str::trim_end
RECURSIVE trim_end(_)
trim_end(str) ==
  IF str = << >> THEN << >>
  ELSE IF is_whitespace(str[Len(str)])
    THEN trim_end(SubSeq(str, 1, Len(str) - 1))
  ELSE str

\* TwoWaySearcher::search_in for the terminator: Some(position of its first
\* occurrence, counted from 0) or None.
search_in(buffer) ==
  LET hits == {p \in 0..(Len(buffer) - 6) :
                 SubSeq(buffer, p + 1, p + 6) = NETCONF_1_0_TERMINATOR} IN
  IF hits = {} THEN None
  ELSE Some(CHOOSE p \in hits : \A q \in hits : p <= q)

\* The values read_async and write_async return.
FrameOk(str) == [tag |-> "Ok", value |-> str, expected |-> "", actual |-> ""]
FrameUnit ==
  [tag |-> "Unit", value |-> << >>, expected |-> "", actual |-> ""]
FrameIo == [tag |-> "Io", value |-> << >>, expected |-> "", actual |-> ""]
\* Faulty variant: the error without its two characters.
MalformedChunkUnnamed(expected, actual) ==
  [tag |-> "MalformedChunk", value |-> << >>, expected |-> "", actual |-> ""]

\* NetconfClientError::MalformedChunk { expected, actual }
MalformedChunk(expected, actual) ==
  [tag |-> "MalformedChunk", value |-> << >>, expected |-> expected,
   actual |-> actual]
FramePanic ==
  [tag |-> "panic", value |-> << >>, expected |-> "", actual |-> ""]
\* upgrade returned.
FrameUpgraded ==
  [tag |-> "upgraded", value |-> << >>, expected |-> "", actual |-> ""]

\* The bytes a message body is made of when a peer sends it: a letter, a
\* line feed (whitespace, and the first byte of a chunk header), the two
\* bytes of "é" (valid together, invalid apart), and for the 1.0 framing
\* the two bytes of the terminator.
ChunkBytes == {"a", LF, "C3", "A9"}
EomBytes == {"a", LF, "]", ">"}
\* The characters of a message a caller writes.
Chars == {"a", LF, "é"}

StringsUpTo(alphabet, n) == UNION {[1..k -> alphabet] : k \in 0..n}

\* Every way to cut a byte string into chunks of at least one byte.
RECURSIVE Chunkings(_)
Chunkings(bytes) ==
  IF bytes = << >> THEN {<< >>}
  ELSE UNION {{<<SubSeq(bytes, 1, k)>> \o rest :
                 rest \in Chunkings(SubSeq(bytes, k + 1, Len(bytes)))} :
              k \in 1..Len(bytes)}

RECURSIVE Concat(_)
Concat(seqs) ==
  IF seqs = << >> THEN << >> ELSE Head(seqs) \o Concat(Tail(seqs))

\* What a peer sends for one message in the chunked framing of RFC 6242:
\* every chunk behind its header, then the end-of-chunks marker.
RECURSIVE EncodeChunks(_)
EncodeChunks(chunks) ==
  IF chunks = << >> THEN <<LF, "#", "#", LF>>
  ELSE <<LF, "#">> \o Decimal(Len(Head(chunks))) \o <<LF>> \o Head(chunks)
         \o EncodeChunks(Tail(chunks))

\* What a peer sends for one message in the end-of-message framing.
EncodeEom(body) == body \o NETCONF_1_0_TERMINATOR

\* One chunk long enough for a header of two digits.
LongChunk == [i \in 1..12 |-> "a"]

\* The two framers of the repository: AsyncFramer of netconf-async and
\* Framer of netconf-rust.
Crates == {"netconf-async", "netconf-rust"}

\* The inputs of a run.  crate: whose framer runs.  scene: what the owner
\* of the framer does ("write": one write; "read": reads of what a peer
\* sent; "roundtrip": one write into a pipe, then a read from it).
\* upgraded: the framer's mode.  rpc: the message written.  chunks: the chunks of the
\* first message a peer sent in 1.1, the bodies of its messages in 1.0.
\* tail: what the peer sent behind the first 1.1 message.  stream: all the
\* bytes the peer sent.  reads: the read_async calls the owner makes (in
\* the scene "upgrade": all its calls).
FramerInput(crate, scene, up, rpc, chunks, tail, stream, reads) ==
  [crate |-> crate, scene |-> scene, upgraded |-> up, rpc |-> rpc,
   chunks |-> chunks, tail |-> tail, stream |-> stream, reads |-> reads]

WriteInputs ==
  {FramerInput(crate, "write", up, rpc, << >>, << >>, << >>, 0) :
     crate \in Crates, up \in BOOLEAN, rpc \in StringsUpTo(Chars, MaxLen)}

RoundTripInputs ==
  {FramerInput("netconf-async", "roundtrip", TRUE, rpc, << >>, << >>, << >>,
               1) :
     rpc \in StringsUpTo(Chars, MaxLen)}

EomInputs ==
  {FramerInput(crate, "read", FALSE, << >>, <<first, second>>, << >>,
               EncodeEom(first) \o EncodeEom(second), 3) :
     crate \in Crates,
     first \in StringsUpTo(EomBytes, MaxLen),
     second \in StringsUpTo(EomBytes, 1)}

ChunkedInputs ==
  {FramerInput(crate, "read", TRUE, << >>, chunks, tail,
               EncodeChunks(chunks) \o tail, 2) :
     crate \in Crates,
     chunks \in UNION {Chunkings(body) :
                         body \in StringsUpTo(ChunkBytes, MaxLen)}
                  \cup {<<LongChunk>>},
     tail \in {<< >>, EncodeChunks(<< <<"a">> >>)}}

\* The calls the owner of a framer makes in the scene "upgrade".
MaxCalls == 3

\* The scene "upgrade": a framer in 1.0 whose owner writes, reads and
\* upgrades in any order, MaxCalls calls in all; the peer sent one message
\* in 1.0 and one chunked message behind it.
UpgradeInputs ==
  {FramerInput("netconf-async", "upgrade", FALSE, <<"a">>, << <<"a">> >>,
               EncodeChunks(<< <<"a">> >>),
               EncodeEom(<<"a">>) \o EncodeChunks(<< <<"a">> >>), MaxCalls)}

\* The bytes of a stream that need not be a chunk header: the line feed,
\* the "#", a digit and a letter.
HeaderBytes == {LF, "#", "1", "a"}

\* The length of such a stream.
MaxHeader == 5

\* The scene "header": one read in 1.1 of any bytes a peer may send.
HeaderInputs ==
  {FramerInput(crate, "header", TRUE, << >>, << >>, << >>, stream, 1) :
     crate \in Crates, stream \in StringsUpTo(HeaderBytes, MaxHeader)}

\* The digits of 2^32 + 1, one more than a u32 holds plus one.
OverflowDigits == <<"4", "2", "9", "4", "9", "6", "7", "2", "9", "7">>

\* The scene "header" on a chunk whose declared size is OverflowDigits:
\* one payload byte and the end-of-chunks marker follow the header.
OverflowInputs ==
  {FramerInput(crate, "header", TRUE, << >>, << >>, << >>,
               <<LF, "#">> \o OverflowDigits \o <<LF, "a", LF, "#", "#", LF>>,
               1) :
     crate \in Crates}

FramerInputs ==
  WriteInputs \cup RoundTripInputs \cup EomInputs \cup ChunkedInputs
    \cup UpgradeInputs \cup HeaderInputs \cup OverflowInputs

\* The buffer of one channel.read in the 1.0 branch of read_async.
ReadBufferSize == 256

VARIABLES
  input,     \* the inputs of the run, never changed
  framer,    \* AsyncFramer: [upgraded, read_buffer]
  wire,      \* AsyncFramer.channel: [pending, arrived, written, closed].
             \* pending: bytes sent to the framer, still under way;
             \* arrived: bytes a read can take now; written: bytes
             \* write_all took; closed: the sender closed behind its bytes
  call,      \* the call in progress: [op, pc, chunk_size, part].  op: "none",
             \* "read", "write"; pc: the await the call is at; part: the
             \* write_all a write is at
  returned   \* what the calls returned, in order

framer_vars == <<input, framer, wire, call, returned>>

NoCall == [op |-> "none", pc |-> "none", chunk_size |-> Zero32, part |-> 0]

\* AsyncFramer::new over the channel, then upgrade() when the run is in 1.1.
FramerInit ==
  /\ input \in FramerInputs
  /\ framer = [upgraded |-> input.upgraded, read_buffer |-> << >>]
  /\ wire = [pending |-> input.stream, arrived |-> << >>, written |-> << >>,
             closed |-> FALSE]
  /\ call = NoCall
  /\ returned = << >>

\* The state in which the other specifications leave the framer's bytes.
FramerIdle ==
  /\ input = FramerInput("none", "none", FALSE, << >>, << >>, << >>, << >>, 0)
  /\ framer = [upgraded |-> FALSE, read_buffer |-> << >>]
  /\ wire = [pending |-> << >>, arrived |-> << >>, written |-> << >>,
             closed |-> FALSE]
  /\ call = NoCall
  /\ returned = << >>

\* A panic unwinds the task that owns the framer: no call follows it.
Panicked == \E i \in 1..Len(returned) : returned[i].tag = "panic"

\* The call in progress returns res to its caller.
frame_return(res) ==
  /\ returned' = Append(returned, res)
  /\ call' = NoCall

\* The first n bytes of what arrived are taken off the channel.
take(n) ==
  wire' = [wire EXCEPT !.arrived = SubSeq(@, n + 1, Len(@))]

\* read_exact meets the end of the stream: what had arrived is used up and
\* the call returns the Io error.
unexpected_eof ==
  /\ wire' = [wire EXCEPT !.arrived = << >>]
  /\ frame_return(FrameIo)
  /\ UNCHANGED framer

\* One more byte of the peer reaches the framer's end of the channel.
deliver ==
  /\ wire.pending # << >>
  /\ wire' = [wire EXCEPT !.arrived = Append(@, Head(wire.pending)),
                          !.pending = Tail(@)]
  /\ UNCHANGED <<input, framer, call, returned>>

\* The sender closes the channel behind the bytes it sent.
peer_close ==
  /\ \/ input.scene \in {"read", "header"}
     \/ input.scene = "roundtrip" /\ returned # << >>
  /\ call.op # "write"
  /\ wire.pending = << >>
  /\ ~wire.closed
  /\ wire' = [wire EXCEPT !.closed = TRUE]
  /\ UNCHANGED <<input, framer, call, returned>>

\* Faulty variant: the whole read buffer is drained once a message is cut.
drain_all(buffer, pos) == << >>

\* self.read_buffer.drain(0..(pos + 6)): what stays in the buffer.
drain_message(buffer, pos) == SubSeq(buffer, pos + 7, Len(buffer))

\* The 1.0 branch of read_async once the buffer holds the terminator: the
\* bytes before it, decoded and trimmed, are returned.
read_eom_return(buffer) ==
  LET pos == search_in(buffer)[1] IN
  /\ framer' = [framer EXCEPT !.read_buffer = drain_message(buffer, pos)]
  /\ frame_return(FrameOk(trim_end(from_utf8_lossy(SubSeq(buffer, 1, pos)))))

\* AsyncFramer::upgrade (&mut self, so between the calls of the owner and
\* never during one): stores true into the flag.
framer_upgrade ==
  /\ call.op = "none" /\ ~Panicked
  /\ input.scene = "upgrade"
  /\ Len(returned) < input.reads
  /\ framer' = [framer EXCEPT !.upgraded = TRUE]
  /\ returned' = Append(returned, FrameUpgraded)
  /\ UNCHANGED <<input, wire, call>>

\* read_async is called.  The mode is sampled from the flag.  In 1.0 a
\* buffer that holds a terminator already gives the message at once;
\* otherwise the call awaits its first read.
read_async_call ==
  /\ call.op = "none" /\ ~Panicked
  /\ input.crate = "netconf-async"
  /\ input.scene \in {"read", "roundtrip", "upgrade", "header"}
  /\ input.scene = "roundtrip" => Len(returned) = 1 /\ returned[1].tag = "Unit"
  /\ Len(returned) < input.reads + (IF input.scene = "roundtrip" THEN 1 ELSE 0)
  /\ IF framer.upgraded
       THEN /\ call' = [op |-> "read", pc |-> "header", chunk_size |-> Zero32, part |-> 0]
            /\ UNCHANGED <<framer, returned>>
       ELSE IF search_in(framer.read_buffer) # None
         THEN read_eom_return(framer.read_buffer)
         ELSE /\ call' = [op |-> "read", pc |-> "fill", chunk_size |-> Zero32, part |-> 0]
              /\ UNCHANGED <<framer, returned>>
  /\ UNCHANGED <<input, wire>>

\* Faulty variant: the terminator is searched in the bytes of the last
\* channel.read only.
read_eom_fill_latest ==
  /\ call.op = "read" /\ call.pc = "fill"
  /\ wire.arrived # << >>
  /\ LET n == IF Len(wire.arrived) < ReadBufferSize
                THEN Len(wire.arrived) ELSE ReadBufferSize
         latest == SubSeq(wire.arrived, 1, n)
         buffer == framer.read_buffer \o latest IN
       /\ take(n)
       /\ IF search_in(latest) # None
            THEN LET pos == Len(framer.read_buffer) + search_in(latest)[1] IN
                 /\ framer' = [framer EXCEPT
                                 !.read_buffer = drain_message(buffer, pos)]
                 /\ frame_return(FrameOk(trim_end(from_utf8_lossy(
                                   SubSeq(buffer, 1, pos)))))
            ELSE /\ framer' = [framer EXCEPT !.read_buffer = buffer]
                 /\ UNCHANGED <<call, returned>>
  /\ UNCHANGED input

\* 1.0: channel.read(&mut buffer) returned what had arrived, at most a
\* buffer full; the read buffer is extended and searched again.
read_eom_fill ==
  /\ call.op = "read" /\ call.pc = "fill"
  /\ wire.arrived # << >>
  /\ LET n == IF Len(wire.arrived) < ReadBufferSize
                THEN Len(wire.arrived) ELSE ReadBufferSize
         buffer == framer.read_buffer \o SubSeq(wire.arrived, 1, n) IN
       /\ take(n)
       /\ IF search_in(buffer) # None
            THEN read_eom_return(buffer)
            ELSE /\ framer' = [framer EXCEPT !.read_buffer = buffer]
                 /\ UNCHANGED <<call, returned>>
  /\ UNCHANGED input

\* 1.0: at the end of the stream channel.read returns Ok(0); nothing is
\* added to the buffer and the loop reads again.
read_eom_eof ==
  /\ call.op = "read" /\ call.pc = "fill"
  /\ wire.arrived = << >> /\ wire.closed
  /\ UNCHANGED framer_vars

\* read_header, its first read_exact: the two bytes "\n#", or the
\* malformed-chunk error naming the byte found.
read_header ==
  /\ call.op = "read" /\ call.pc = "header"
  /\ IF Len(wire.arrived) >= 2
       THEN /\ take(2)
            /\ IF wire.arrived[1] # LF
                 THEN frame_return(MalformedChunk(LF, wire.arrived[1]))
               ELSE IF wire.arrived[2] # "#"
                 THEN frame_return(MalformedChunk("#", wire.arrived[2]))
               ELSE /\ call' = [call EXCEPT !.pc = "size", !.chunk_size = Zero32]
                    /\ UNCHANGED returned
            /\ UNCHANGED framer
       ELSE /\ wire.closed /\ wire.pending = << >>
            /\ unexpected_eof
  /\ UNCHANGED input

\* The 1.1 branch of read_async when read_header returned 0: the
\* accumulated bytes, decoded and trimmed, are returned and the buffer
\* emptied.
read_chunked_return ==
  /\ framer' = [framer EXCEPT !.read_buffer = << >>]
  /\ frame_return(FrameOk(trim_end(from_utf8_lossy(framer.read_buffer))))

\* read_header, one turn of its loop: a "#" is passed over, a line feed
\* ends the header with the size read so far, a digit is added to the
\* size, any other byte is the malformed-chunk error.  The size is a u32:
\* past its range the sum wraps, or panics in a build with overflow checks.
read_header_byte ==
  /\ call.op = "read" /\ call.pc = "size"
  /\ IF Len(wire.arrived) >= 1
       THEN LET last_read == wire.arrived[1] IN
            /\ take(1)
            /\ IF last_read = "#"
                 THEN UNCHANGED <<framer, call, returned>>
               ELSE IF last_read = LF
                 THEN IF call.chunk_size = Zero32
                        THEN read_chunked_return
                        ELSE /\ call' = [call EXCEPT !.pc = "payload"]
                             /\ UNCHANGED <<framer, returned>>
               ELSE IF ~is_ascii_digit(last_read)
                 THEN /\ frame_return(MalformedChunk("0", last_read))
                      /\ UNCHANGED framer
               ELSE LET sum == mul10_add(call.chunk_size,
                                         DigitValue(last_read)) IN
                    /\ UNCHANGED framer
                    /\ \/ /\ call' = [call EXCEPT
                                        !.chunk_size = sum.wrapped]
                          /\ UNCHANGED returned
                       \/ /\ sum.overflow
                          /\ frame_return(FramePanic)
       ELSE /\ wire.closed /\ wire.pending = << >>
            /\ unexpected_eof
  /\ UNCHANGED input

\* The 1.1 branch of read_async after a header with a size: read_exact
\* takes exactly chunk_size bytes, which extend the read buffer, and the
\* next header is read.
read_chunk ==
  /\ call.op = "read" /\ call.pc = "payload"
  /\ IF within(call.chunk_size, Len(wire.arrived))
       THEN /\ take(call.chunk_size.lo)
            /\ framer' = [framer EXCEPT !.read_buffer =
                            @ \o SubSeq(wire.arrived, 1, call.chunk_size.lo)]
            /\ call' = [call EXCEPT !.pc = "header", !.chunk_size = Zero32]
            /\ UNCHANGED returned
       ELSE /\ wire.closed /\ wire.pending = << >>
            /\ unexpected_eof
  /\ UNCHANGED input

\* write_all: the channel takes bytes.  In a round trip the channel is a
\* pipe, and what is written travels to its reading end.
channel_takes(bytes) ==
  wire' = [wire EXCEPT
             !.written = @ \o bytes,
             !.pending = IF input.scene = "roundtrip" THEN @ \o bytes ELSE @]

\* What the write_all calls of write_async hand to the channel, in order.
write_parts(up, rpc) ==
  IF up
    THEN << <<LF, "#">> \o Decimal(bytes_len(rpc)) \o <<LF>>,
            as_bytes(rpc),
            <<LF, "#", "#", LF>> >>
    ELSE << as_bytes(rpc), NETCONF_1_0_TERMINATOR >>

\* Faulty variant: write_async frames in the mode the framer was built
\* with.
write_async_call_stale ==
  /\ call.op = "none"
  /\ input.crate = "netconf-async"
  /\ \/ input.scene \in {"write", "roundtrip"} /\ returned = << >>
     \/ input.scene = "upgrade" /\ Len(returned) < input.reads
  /\ ~Panicked
  /\ call' = [op |-> "write",
              pc |-> IF input.upgraded THEN "chunked" ELSE "eom",
              chunk_size |-> Zero32, part |-> 1]
  /\ UNCHANGED <<input, framer, wire, returned>>

\* write_async is called with the message of the run; the mode is sampled
\* from the flag.
write_async_call ==
  /\ call.op = "none"
  /\ input.crate = "netconf-async"
  /\ \/ input.scene \in {"write", "roundtrip"} /\ returned = << >>
     \/ input.scene = "upgrade" /\ Len(returned) < input.reads
  /\ ~Panicked
  /\ call' = [op |-> "write",
              pc |-> IF framer.upgraded THEN "chunked" ELSE "eom",
              chunk_size |-> Zero32, part |-> 1]
  /\ UNCHANGED <<input, framer, wire, returned>>

\* One write_all of write_async: the channel takes the bytes, or the write
\* fails after the channel took some of them and write_async returns the
\* error.
write_all ==
  /\ call.op = "write"
  /\ LET parts == write_parts(call.pc = "chunked", input.rpc)
         k == call.part IN
     \/ /\ channel_takes(parts[k])
        /\ IF k = Len(parts)
             THEN frame_return(FrameUnit)
             ELSE /\ call' = [call EXCEPT !.part = k + 1]
                  /\ UNCHANGED returned
     \/ /\ \E n \in 0..Len(parts[k]) : channel_takes(SubSeq(parts[k], 1, n))
        /\ frame_return(FrameIo)
  /\ UNCHANGED <<input, framer>>

(***************************************************************************)
(* Framer of netconf-rust, the older framer of the repository.  It shares  *)
(* the channel, the call and the read buffer of the model above; its       *)
(* calls are read_xml and write_xml.                                       *)
(***************************************************************************)
\* The buffer of one from.read in the 1.0 branch of read_xml.
LegacyReadBufferSize == 128

\* Error::MalformedChunk as Framer::read_header of netconf-rust returns
\* it, without characters.
LegacyMalformedChunk ==
  [tag |-> "MalformedChunk", value |-> << >>, expected |-> "", actual |-> ""]

\* String::from_utf8: Some(the string) when the bytes are valid UTF-8, that
\* is when nothing had to be replaced to decode them, or None.
from_utf8(bytes) ==
  IF as_bytes(from_utf8_lossy(bytes)) = bytes
    THEN Some(from_utf8_lossy(bytes)) ELSE None

\* String::from_utf8(bytes).unwrap() as the value of a call: the string,
\* or the panic of unwrap.
unwrap_utf8(bytes) ==
  IF from_utf8(bytes) = None THEN FramePanic
  ELSE FrameOk(from_utf8(bytes)[1])

\* Framer::write_xml: the trimmed data inside its framing, formatted into
\* one buffer and handed to one write_all.
write_xml ==
  /\ call.op = "none" /\ ~Panicked
  /\ input.crate = "netconf-rust"
  /\ input.scene = "write"
  /\ returned = << >>
  /\ LET data == trim(input.rpc)
         bytes == IF framer.upgraded
                    THEN <<LF, "#">> \o Decimal(bytes_len(data)) \o <<LF>>
                           \o as_bytes(data) \o <<LF, "#", "#", LF>>
                    ELSE as_bytes(trim(data)) \o NETCONF_1_0_TERMINATOR IN
       \/ /\ channel_takes(bytes)
          /\ returned' = Append(returned, FrameUnit)
       \/ /\ \E n \in 0..Len(bytes) : channel_takes(SubSeq(bytes, 1, n))
          /\ returned' = Append(returned, FrameIo)
  /\ UNCHANGED <<input, framer, call>>

\* The 1.0 branch of read_xml once the buffer holds the terminator: the
\* bytes before it must be UTF-8 and are returned trimmed at both ends.
read_xml_eom_return(buffer) ==
  LET pos == search_in(buffer)[1]
      decoded == unwrap_utf8(SubSeq(buffer, 1, pos))
      res == IF decoded.tag = "panic" THEN decoded
             ELSE FrameOk(trim(decoded.value)) IN
  /\ framer' = [framer EXCEPT !.read_buffer =
                  IF res.tag = "panic" THEN buffer
                  ELSE drain_message(buffer, pos)]
  /\ frame_return(res)

\* read_xml is called.
read_xml_call ==
  /\ call.op = "none" /\ ~Panicked
  /\ input.crate = "netconf-rust"
  /\ input.scene \in {"read", "header"}
  /\ Len(returned) < input.reads
  /\ IF framer.upgraded
       THEN /\ call' = [op |-> "read_xml", pc |-> "header",
                        chunk_size |-> Zero32, part |-> 0]
            /\ UNCHANGED <<framer, returned>>
       ELSE IF search_in(framer.read_buffer) # None
         THEN read_xml_eom_return(framer.read_buffer)
         ELSE /\ call' = [op |-> "read_xml", pc |-> "fill",
                          chunk_size |-> Zero32, part |-> 0]
              /\ UNCHANGED <<framer, returned>>
  /\ UNCHANGED <<input, wire>>

\* 1.0: from.read(&mut buffer) returned what had arrived, at most a buffer
\* full, or Ok(0) at the end of the stream; the read buffer is extended and
\* searched again.
read_xml_fill ==
  /\ call.op = "read_xml" /\ call.pc = "fill"
  /\ \/ wire.arrived # << >>
     \/ wire.closed /\ wire.pending = << >>
  /\ LET n == IF Len(wire.arrived) < LegacyReadBufferSize
                THEN Len(wire.arrived) ELSE LegacyReadBufferSize
         buffer == framer.read_buffer \o SubSeq(wire.arrived, 1, n) IN
       /\ take(n)
       /\ IF search_in(buffer) # None
            THEN read_xml_eom_return(buffer)
            ELSE /\ framer' = [framer EXCEPT !.read_buffer = buffer]
                 /\ UNCHANGED <<call, returned>>
  /\ UNCHANGED input

\* Framer::read_header of netconf-rust, its first read_exact: the two
\* bytes "\n#", or the malformed-chunk error.
read_xml_header ==
  /\ call.op = "read_xml" /\ call.pc = "header"
  /\ IF Len(wire.arrived) >= 2
       THEN /\ take(2)
            /\ IF wire.arrived[1] # LF \/ wire.arrived[2] # "#"
                 THEN frame_return(LegacyMalformedChunk)
                 ELSE /\ call' = [call EXCEPT !.pc = "size",
                                              !.chunk_size = Zero32]
                      /\ UNCHANGED returned
            /\ UNCHANGED framer
       ELSE /\ wire.closed /\ wire.pending = << >>
            /\ unexpected_eof
  /\ UNCHANGED input

\* Framer::read_header of netconf-rust, one turn of its loop; on the size
\* 0 read_xml returns the accumulated bytes, which must be UTF-8, as they
\* are, and empties the buffer.
read_xml_header_byte ==
  /\ call.op = "read_xml" /\ call.pc = "size"
  /\ IF Len(wire.arrived) >= 1
       THEN LET last_read == wire.arrived[1] IN
            /\ take(1)
            /\ IF last_read = "#"
                 THEN UNCHANGED <<framer, call, returned>>
               ELSE IF last_read = LF
                 THEN IF call.chunk_size = Zero32
                        THEN LET res == unwrap_utf8(framer.read_buffer) IN
                             /\ framer' = [framer EXCEPT !.read_buffer =
                                             IF res.tag = "panic" THEN @
                                             ELSE << >>]
                             /\ frame_return(res)
                        ELSE /\ call' = [call EXCEPT !.pc = "payload"]
                             /\ UNCHANGED <<framer, returned>>
               ELSE IF ~is_ascii_digit(last_read)
                 THEN /\ frame_return(LegacyMalformedChunk)
                      /\ UNCHANGED framer
               ELSE LET sum == mul10_add(call.chunk_size,
                                         DigitValue(last_read)) IN
                    /\ UNCHANGED framer
                    /\ \/ /\ call' = [call EXCEPT
                                        !.chunk_size = sum.wrapped]
                          /\ UNCHANGED returned
                       \/ /\ sum.overflow
                          /\ frame_return(FramePanic)
       ELSE /\ wire.closed /\ wire.pending = << >>
            /\ unexpected_eof
  /\ UNCHANGED input

\* The 1.1 branch of read_xml after a header with a size: a buffer of
\* chunk_size zero bytes, one from.read into it, which takes what had
\* arrived (nothing at the end of the stream) and at most chunk_size bytes,
\* and the whole buffer extends the read buffer.  A size of Limb or more
\* is beyond the streams of the model.
read_xml_chunk ==
  /\ call.op = "read_xml" /\ call.pc = "payload"
  /\ call.chunk_size.hi = 0
  /\ \/ wire.arrived # << >>
     \/ wire.closed /\ wire.pending = << >>
  /\ LET n == IF Len(wire.arrived) < call.chunk_size.lo
                THEN Len(wire.arrived) ELSE call.chunk_size.lo IN
       /\ take(n)
       /\ framer' = [framer EXCEPT !.read_buffer =
                       @ \o SubSeq(wire.arrived, 1, n)
                         \o [i \in 1..(call.chunk_size.lo - n) |-> "NUL"]]
  /\ call' = [call EXCEPT !.pc = "header", !.chunk_size = Zero32]
  /\ UNCHANGED <<input, returned>>

(***************************************************************************)
(* The messages of netconf-async (message.rs): the subtree filter, the     *)
(* text of an rpc envelope and the parsing of a datastore name.  A string  *)
(* is the sequence of its characters; the tags and attributes the          *)
(* serializer writes are single elements of a text.                        *)
(***************************************************************************)
BACKSLASH == "\\"

\* The characters of the filter strings a caller passes: markup, an
\* ampersand, a letter, a blank and the backslash.
FilterChars == {"<", "&", "a", " ", BACKSLASH}

\* Filter strings beyond those of FilterChars: an element between blanks,
\* and a text that holds an entity already.
LongFilters ==
  {<<" ", "<", "a", "/", ">", " ">>, <<"&", "l", "t", ";", "a">>}

FilterStrings == StringsUpTo(FilterChars, MaxLen) \cup LongFilters

\* The operations whose envelope can carry a filter.
FilterOperations == {"get", "get-config", "create-subscription"}

\* Filter::strip_slashes: the trimmed string with every backslash dropped
\* and the character behind it kept; None when a backslash is the last
\* character (chars.next()? on the exhausted iterator).
RECURSIVE strip_chars(_)
strip_chars(chars) ==
  IF chars = << >> THEN Some(<< >>)
  ELSE IF Head(chars) = BACKSLASH
    THEN IF Len(chars) = 1 THEN None
         ELSE LET rest == strip_chars(Tail(Tail(chars))) IN
              IF rest = None THEN None ELSE Some(<<chars[2]>> \o rest[1])
  ELSE LET rest == strip_chars(Tail(chars)) IN
       IF rest = None THEN None ELSE Some(<<Head(chars)>> \o rest[1])

strip_slashes(s) == strip_chars(trim(s))

\* The entities of quick_xml::escape.
Entities ==
  {<<"<", <<"l", "t">> >>, <<">", <<"g", "t">> >>,
   <<"&", <<"a", "m", "p">> >>}

\* quick_xml::escape::escape on one character of a text.
escape_char(c) ==
  IF \E e \in Entities : e[1] = c
    THEN <<"&">> \o (CHOOSE e \in Entities : e[1] = c)[2] \o <<";">>
    ELSE <<c>>

RECURSIVE escape(_)
escape(text) ==
  IF text = << >> THEN << >>
  ELSE escape_char(Head(text)) \o escape(Tail(text))

\* quick_xml::escape::unescape, one pass from the left: every "&" opens an
\* entity that ends at the next ";" and is replaced by its character; an
\* unknown or unterminated entity is an error (None).
RECURSIVE unescape(_)
unescape(text) ==
  IF text = << >> THEN Some(<< >>)
  ELSE IF Head(text) # "&"
    THEN LET rest == unescape(Tail(text)) IN
         IF rest = None THEN None ELSE Some(<<Head(text)>> \o rest[1])
  ELSE LET ends == {k \in 2..Len(text) : text[k] = ";"} IN
       IF ends = {} THEN None
       ELSE LET k == CHOOSE k \in ends : \A j \in ends : k <= j
                name == SubSeq(text, 2, k - 1)
                rest == unescape(SubSeq(text, k + 1, Len(text))) IN
            IF (\A e \in Entities : e[2] # name) \/ rest = None THEN None
            ELSE Some(<<(CHOOSE e \in Entities : e[2] = name)[1]>>
                        \o rest[1])

\* The tags of an envelope, as the serializer writes them.
RPC_OPEN == "<rpc message-id xmlns>"
RPC_CLOSE == "</rpc>"
FILTER_OPEN == "<filter type=\"subtree\">"
FILTER_CLOSE == "</filter>"
FILTER_EMPTY == "<filter type=\"subtree\"/>"
SOURCE_RUNNING == "<source><running/></source>"
OperationOpen(op) ==
  CASE op = "get" -> "<get>"
    [] op = "get-config" -> "<get-config>"
    [] op = "create-subscription" -> "<create-subscription xmlns>"
OperationClose(op) ==
  CASE op = "get" -> "</get>"
    [] op = "get-config" -> "</get-config>"
    [] op = "create-subscription" -> "</create-subscription>"

\* ser.indent(' ', 2): a new line and two blanks for each level.
Indent(level) == <<LF>> \o [i \in 1..(2 * level) |-> " "]

\* The quick-xml serializer on an Rpc whose operation holds Some(filter):
\* the filter's text is written as escaped character data on a line of its
\* own.
serialize(op, filter) ==
  <<RPC_OPEN>> \o Indent(1) \o <<OperationOpen(op)>>
    \o (IF op = "get-config" THEN Indent(2) \o <<SOURCE_RUNNING>> ELSE << >>)
    \o Indent(2)
    \o (IF filter = << >>
          THEN <<FILTER_EMPTY>>
          ELSE <<FILTER_OPEN>> \o Indent(3) \o escape(filter)
                 \o Indent(2) \o <<FILTER_CLOSE>>)
    \o Indent(1) \o <<OperationClose(op)>> \o <<LF, RPC_CLOSE>>

\* Display for Rpc after the serializer filled the buffer: the buffer
\* unescaped for get-config and get, as it is for every other operation.
\* None is the panic of unescape(..).unwrap().
fmt(op, buffer) ==
  IF op \in {"get-config", "get"} THEN unescape(buffer) ELSE Some(buffer)

\* The letters of the datastore names and URL schemes, and their
\* lowercase forms.
UpperLetters ==
  <<"A", "C", "D", "E", "F", "G", "H", "I", "L", "N", "P", "R", "S", "T",
    "U", "X", "Z">>
LowerLetters ==
  <<"a", "c", "d", "e", "f", "g", "h", "i", "l", "n", "p", "r", "s", "t",
    "u", "x", "z">>

\* char::to_lowercase
to_lowercase_char(c) ==
  IF \E i \in 1..Len(UpperLetters) : UpperLetters[i] = c
    THEN LowerLetters[CHOOSE i \in 1..Len(UpperLetters) : UpperLetters[i] = c]
    ELSE c

to_uppercase_char(c) ==
  IF \E i \in 1..Len(LowerLetters) : LowerLetters[i] = c
    THEN UpperLetters[CHOOSE i \in 1..Len(LowerLetters) : LowerLetters[i] = c]
    ELSE c

\* str::to_lowercase
to_lowercase(s) == [i \in 1..Len(s) |-> to_lowercase_char(s[i])]

\* str::starts_with
starts_with(s, prefix) ==
  Len(s) >= Len(prefix) /\ SubSeq(s, 1, Len(prefix)) = prefix

RUNNING == <<"r", "u", "n", "n", "i", "n", "g">>
CANDIDATE == <<"c", "a", "n", "d", "i", "d", "a", "t", "e">>
STARTUP == <<"s", "t", "a", "r", "t", "u", "p">>
HTTP == <<"h", "t", "t", "p">>
FILE == <<"f", "i", "l", "e">>
FTP == <<"f", "t", "p">>

\* The expected set of the UnknownDatastore error.
ExpectedDatastores ==
  <<RUNNING, CANDIDATE, STARTUP,
    <<"f", "t", "p", "|", "h", "t", "t", "p", "|", "f", "i", "l", "e">> >>

\* The values of Result<Datastore, NetconfClientError>.
DatastoreOk(variant, url) ==
  [tag |-> variant, url |-> url, expected |-> << >>, unknown |-> << >>]
UnknownDatastore(expected, unknown) ==
  [tag |-> "UnknownDatastore", url |-> << >>, expected |-> expected,
   unknown |-> unknown]
NoDatastore == [tag |-> "none", url |-> << >>, expected |-> << >>,
                unknown |-> << >>]

\* impl FromStr for Datastore
datastore_from_str(s) ==
  LET datastore == to_lowercase(s) IN
  IF datastore = RUNNING THEN DatastoreOk("Running", << >>)
  ELSE IF datastore = CANDIDATE THEN DatastoreOk("Candidate", << >>)
  ELSE IF datastore = STARTUP THEN DatastoreOk("Startup", << >>)
  ELSE IF \/ starts_with(datastore, HTTP)
          \/ starts_with(datastore, FILE)
          \/ starts_with(datastore, FTP)
    THEN DatastoreOk("Url", datastore)
  ELSE UnknownDatastore(ExpectedDatastores, datastore)

\* The strings a caller parses as a datastore: the names, the schemes and
\* two other words, in three casings, alone and with something behind them.
DatastoreWords ==
  {RUNNING, CANDIDATE, STARTUP, HTTP, FILE, FTP, <<"z", "z", "z">>,
   <<"f", "i", "l">>, << >>}
Capitalised(s) ==
  [i \in 1..Len(s) |-> IF i = 1 THEN to_uppercase_char(s[i]) ELSE s[i]]
Uppercased(s) == [i \in 1..Len(s) |-> to_uppercase_char(s[i])]
DatastoreSuffixes == {<< >>, <<"x">>, <<":", "/", "X">>}
DatastoreStrings ==
  {cased \o suffix :
     cased \in UNION {{w, Capitalised(w), Uppercased(w)} :
                        w \in DatastoreWords},
     suffix \in DatastoreSuffixes}

\* The response of a run without a reply.
NoResponse ==
  [wf |-> FALSE, nerr |-> 0, okmark |-> FALSE, form |-> "other",
   mid |-> REQUEST_ID]

VARIABLES
  message_in,  \* what the caller passes: [fn, op, s, skip, response].  fn:
               \* "to_string" (a filter is built of s and an Rpc with it
               \* printed), "from_str" (s is parsed as a datastore) or
               \* "run_rpc" (an Rpc is run on a Connection whose
               \* skip_serializing is skip and whose peer sends response
               \* as its next message)
  message_out  \* [stage, filter, wire, datastore, message_id, result].
               \* stage: "input", "filter" (Filter::subtree returned),
               \* "done", "panic"; filter: Filter.filter; wire: the text
               \* of the Rpc; datastore: the result of from_str;
               \* message_id: that of the Rpc run_rpc wrote; result: what
               \* run_rpc returned

message_vars == <<message_in, message_out>>

MessageInputs ==
  [fn : {"to_string"}, op : FilterOperations, s : FilterStrings,
   skip : {FALSE}, response : {NoResponse}]
  \cup [fn : {"from_str"}, op : {"none"}, s : DatastoreStrings,
         skip : {FALSE}, response : {NoResponse}]
  \cup [fn : {"run_rpc"}, op : Envelopes, s : {<< >>}, skip : BOOLEAN,
         response : ReplyTextsWith(MessageIds)]

NoMessageOut ==
  [stage |-> "input", filter |-> << >>, wire |-> << >>,
   datastore |-> NoDatastore, message_id |-> "", result |-> NoResult]

MessageInit ==
  /\ message_in \in MessageInputs
  /\ message_out = NoMessageOut

\* The state in which the other specifications leave the messages.
MessageIdle ==
  /\ message_in = [fn |-> "none", op |-> "none", s |-> << >>,
                   skip |-> FALSE, response |-> NoResponse]
  /\ message_out = NoMessageOut

\* Filter::subtree: the string stripped of its backslashes and trimmed, or
\* the panic of strip_slashes(..).unwrap().
filter_subtree ==
  /\ message_in.fn = "to_string"
  /\ message_out.stage = "input"
  /\ LET filter == strip_slashes(message_in.s) IN
       message_out' =
         IF filter = None
           THEN [message_out EXCEPT !.stage = "panic"]
           ELSE [message_out EXCEPT !.stage = "filter",
                                    !.filter = trim(filter[1])]
  /\ UNCHANGED message_in

\* Rpc::to_string on the operation holding the filter: Display for Rpc.
rpc_to_string ==
  /\ message_in.fn = "to_string"
  /\ message_out.stage = "filter"
  /\ LET text == fmt(message_in.op,
                     serialize(message_in.op, message_out.filter)) IN
       message_out' =
         IF text = None
           THEN [message_out EXCEPT !.stage = "panic"]
           ELSE [message_out EXCEPT !.stage = "done", !.wire = text[1]]
  /\ UNCHANGED message_in

\* Rpc::new_with_operation and Connection::run_rpc: the envelope, with
\* its fresh message-id, goes to write_and_receive, whose error is
\* returned; the message it returns is the response.
run_rpc ==
  /\ message_in.fn = "run_rpc"
  /\ message_out.stage = "input"
  /\ \E ok \in BOOLEAN :
       message_out' =
         [message_out EXCEPT
            !.stage = "done",
            !.message_id = REQUEST_ID,
            !.result = IF ok
                         THEN run_rpc_result(message_in.skip,
                                             message_in.response)
                         ELSE ErrIo]
  /\ UNCHANGED message_in

\* Datastore::from_str(s)
datastore_parse ==
  /\ message_in.fn = "from_str"
  /\ message_out.stage = "input"
  /\ message_out' = [message_out EXCEPT
                       !.stage = "done",
                       !.datastore = datastore_from_str(message_in.s)]
  /\ UNCHANGED message_in

(***************************************************************************)
(* The SSH adapter: authentication of the session, the channel bound to    *)
(* the netconf subsystem, and Transport::close.  Two generations: the      *)
(* netconf-cli of config.rs over netconf-async, and the netconf-cli of     *)
(* ssh.rs over netconf-rust.  What libssh2 and the peer answer to a call   *)
(* is an input.                                                            *)
(***************************************************************************)
\* Identities the key agent may list.
MaxIdentities == 2

Generations == {"netconf-async", "netconf-rust"}

\* The calls of close on a channel, in the order of the source, and the
\* disconnect of the session after them.
CloseSteps == <<"send_eof", "wait_eof", "close", "wait_close", "disconnect">>

\* One run: the generation, the method the host's parameters select, the
\* number of identities of the agent's list (identity i stands i-th in the
\* list) and the identities the server accepts.
SshInputs ==
  {i \in [gen : Generations, method : {"password", "agent"},
          identities : 0..MaxIdentities,
          accepts : SUBSET (1..MaxIdentities)] :
     /\ i.accepts \subseteq 1..i.identities
     /\ i.method = "password" => i.identities = 0}

VARIABLES
  ssh_in,  \* the run's input, fixed
  ssh      \* [pc, tried, authenticated, channels, channel, target, steps,
           \* disconnect, hello, result].  pc: "idle", "auth" (handshake
           \* done), "session" (the connect function returned Ok),
           \* "transport" (SSHTransport built), "open" (hello written),
           \* one of CloseSteps inside close, "returned" (close returned),
           \* "failed" (the task ended with an error).  tried: identities
           \* handed to agent.userauth, in order; channels: the session's
           \* channels, each [subsystem, eof_sent, closed]; channel: the
           \* index of the channel the transport reads and writes, 0 when
           \* none; target: the channel close acts on; steps: the calls
           \* close made, each [step, channel, ok]; disconnect: the
           \* arguments of a successful disconnect

ssh_vars == <<ssh_in, ssh>>

NoSsh ==
  [pc |-> "idle", tried |-> << >>, authenticated |-> FALSE,
   channels |-> << >>, channel |-> 0, target |-> 0, steps |-> << >>,
   disconnect |-> << >>, hello |-> FALSE, result |-> "none"]

NewChannel == [subsystem |-> "none", eof_sent |-> FALSE, closed |-> FALSE]

SshIdle ==
  /\ ssh_in = [gen |-> "netconf-async", method |-> "password",
               identities |-> 0, accepts |-> {}]
  /\ ssh = NoSsh

SshInit ==
  /\ ssh_in \in SshInputs
  /\ ssh = [NoSsh EXCEPT !.pc = "auth"]

\* session.userauth_password(..).await? of the connect function.
userauth_password ==
  /\ ssh.pc = "auth"
  /\ ssh_in.method = "password"
  /\ \E ok \in BOOLEAN :
       ssh' = IF ok THEN [ssh EXCEPT !.pc = "session",
                                     !.authenticated = TRUE]
                    ELSE [ssh EXCEPT !.pc = "failed", !.result = "Err"]
  /\ UNCHANGED ssh_in

\* Faulty variant: the loop goes on after an identity was accepted.
agent_userauth_unbroken ==
  /\ ssh.pc = "auth"
  /\ ssh_in.method = "agent"
  /\ Len(ssh.tried) < ssh_in.identities
  /\ LET identity == Len(ssh.tried) + 1 IN
       ssh' = [ssh EXCEPT !.tried = Append(@, identity),
                          !.authenticated = @ \/ identity \in ssh_in.accepts]
  /\ UNCHANGED ssh_in

\* One turn of `for identity in agent.identities().unwrap()`: the next
\* identity of the list goes to agent.userauth; Ok breaks out of the loop,
\* Err is logged and the loop continues.
agent_userauth ==
  /\ ssh.pc = "auth"
  /\ ssh_in.method = "agent"
  /\ ~ssh.authenticated
  /\ Len(ssh.tried) < ssh_in.identities
  /\ LET identity == Len(ssh.tried) + 1 IN
       ssh' = [ssh EXCEPT !.tried = Append(@, identity),
                          !.authenticated = identity \in ssh_in.accepts]
  /\ UNCHANGED ssh_in

\* After the loop.  Host::connect_ssh of config.rs returns Ok(session)
\* whatever the loop did; Host::connect of ssh.rs returns the session only
\* if session.authenticated(), an error otherwise.
connect_ssh_returns ==
  /\ ssh.pc = "auth"
  /\ ssh_in.method = "agent"
  /\ ssh.authenticated \/ Len(ssh.tried) = ssh_in.identities
  /\ ssh' = IF ssh_in.gen = "netconf-async" \/ ssh.authenticated
              THEN [ssh EXCEPT !.pc = "session"]
              ELSE [ssh EXCEPT !.pc = "failed", !.result = "Err"]
  /\ UNCHANGED ssh_in

\* Faulty variant: the channel is opened without asking whether the
\* session is authenticated.
connect_internal_unchecked ==
  /\ ssh.pc = "session"
  /\ \E opened \in BOOLEAN, bound \in BOOLEAN :
       LET k == Len(ssh.channels) + 1 IN
       ssh' = IF ~opened
                THEN [ssh EXCEPT !.pc = "failed", !.result = "Err"]
              ELSE IF ~bound
                THEN [ssh EXCEPT !.pc = "failed", !.result = "Err",
                                 !.channels = Append(@, NewChannel)]
              ELSE [ssh EXCEPT
                      !.pc = "transport",
                      !.channels =
                         Append(@, [NewChannel EXCEPT
                                      !.subsystem = "netconf"]),
                      !.channel = k]
  /\ UNCHANGED ssh_in

\* connect_internal, behind SSHTransport::new_with_session and
\* dial_session: on an authenticated session a channel is opened and bound
\* to the netconf subsystem, and the transport owns it; on an
\* unauthenticated one it returns an Io error and the task ends.
connect_internal ==
  /\ ssh.pc = "session"
  /\ IF ssh.authenticated
       THEN \E opened \in BOOLEAN, bound \in BOOLEAN :
              LET k == Len(ssh.channels) + 1 IN
              ssh' = IF ~opened
                       THEN [ssh EXCEPT !.pc = "failed", !.result = "Err"]
                     ELSE IF ~bound
                       THEN [ssh EXCEPT !.pc = "failed", !.result = "Err",
                                        !.channels = Append(@, NewChannel)]
                     ELSE [ssh EXCEPT
                             !.pc = "transport",
                             !.channels =
                                Append(@, [NewChannel EXCEPT
                                             !.subsystem = "netconf"]),
                             !.channel = k]
       ELSE ssh' = [ssh EXCEPT !.pc = "failed", !.result = "Err"]
  /\ UNCHANGED ssh_in

\* Connection::new on the transport: the client hello goes out on the
\* transport's channel.
Connection_new ==
  /\ ssh.pc = "transport"
  /\ ssh' = [ssh EXCEPT !.pc = "open", !.hello = TRUE]
  /\ UNCHANGED ssh_in

\* SSHTransport::close is called.  netconf-rust goes to send_eof on
\* self.channel.  netconf-async first runs
\* self.session.channel_session().await?: a failure returns, a success is a
\* new channel of the session, and that channel is the one the calls of
\* close are made on.
ssh_close ==
  /\ ssh.pc = "open"
  /\ IF ssh_in.gen = "netconf-rust"
       THEN ssh' = [ssh EXCEPT !.pc = "send_eof", !.target = ssh.channel]
       ELSE \E opened \in BOOLEAN :
              ssh' = IF opened
                       THEN [ssh EXCEPT
                               !.pc = "send_eof",
                               !.channels = Append(@, NewChannel),
                               !.target = Len(ssh.channels) + 1]
                       ELSE [ssh EXCEPT !.pc = "returned",
                                        !.result = "Err"]
  /\ UNCHANGED ssh_in

\* The next call of close, each followed by `?`: send_eof, wait_eof,
\* close and wait_close on the channel, then
\* session.disconnect(Some(ByApplication), "Shutdown", None), then Ok(()).
ssh_close_step ==
  /\ \E n \in DOMAIN CloseSteps :
       /\ ssh.pc = CloseSteps[n]
       /\ \E ok \in BOOLEAN :
            LET on == IF ssh.pc = "disconnect" THEN 0 ELSE ssh.target
                done == [ssh EXCEPT
                           !.steps = Append(@, [step |-> ssh.pc,
                                                channel |-> on,
                                                ok |-> ok])]
                effect ==
                  IF ssh.pc = "send_eof"
                    THEN [done EXCEPT !.channels[on].eof_sent = TRUE]
                  ELSE IF ssh.pc = "close"
                    THEN [done EXCEPT !.channels[on].closed = TRUE]
                  ELSE IF ssh.pc = "disconnect"
                    THEN [done EXCEPT
                            !.disconnect = <<"ByApplication", "Shutdown">>]
                  ELSE done IN
            ssh' = IF ~ok
                     THEN [done EXCEPT !.pc = "returned", !.result = "Err"]
                   ELSE IF n = Len(CloseSteps)
                     THEN [effect EXCEPT !.pc = "returned", !.result = "Ok"]
                   ELSE [effect EXCEPT !.pc = CloseSteps[n + 1]]
  /\ UNCHANGED ssh_in

(***************************************************************************)
(* Specifications.  Each one moves the variables of its own part of the    *)
(* program and leaves the others where their initial states put them.      *)
(***************************************************************************)
SessionOnly ==
  UNCHANGED <<notif_vars, driver_vars, framer_vars, message_vars, ssh_vars>>
NotifOnly ==
  UNCHANGED <<vars, driver_vars, framer_vars, message_vars, ssh_vars>>
DriverOnly ==
  UNCHANGED <<vars, notif_vars, framer_vars, message_vars, ssh_vars>>
FramerOnly ==
  UNCHANGED <<vars, notif_vars, driver_vars, message_vars, ssh_vars>>
MessageOnly ==
  UNCHANGED <<vars, notif_vars, driver_vars, framer_vars, ssh_vars>>
SshOnly ==
  UNCHANGED <<vars, notif_vars, driver_vars, framer_vars, message_vars>>

\* One session: the Connection, its framer flag and its owner.
Next ==
  \/ new_hello_write /\ SessionOnly
  \/ new_hello_read /\ SessionOnly
  \/ new_hello_decode /\ SessionOnly
  \/ set_skip_serializing /\ SessionOnly
  \/ get_config /\ SessionOnly
  \/ get /\ SessionOnly
  \/ validate /\ SessionOnly
  \/ commit /\ SessionOnly
  \/ confirmed_commit /\ SessionOnly
  \/ close_session /\ SessionOnly
  \/ kill_session /\ SessionOnly
  \/ notification /\ SessionOnly
  \/ run_rpc_read /\ SessionOnly
  \/ notification_receive /\ SessionOnly
  \/ notification_ctrl_c /\ SessionOnly
  \/ receiver_dropped /\ SessionOnly
  \/ drop /\ SessionOnly

\* The session after construction; no other part of the program runs.
SessionInit ==
  Init /\ NotifInit /\ DriverInit /\ FramerIdle /\ MessageIdle /\ SshIdle

Spec == SessionInit /\ [][Next]_vars

\* One host task running the notification command.
NotifNext ==
  \/ subscribe_write /\ NotifOnly
  \/ subscribe_reply /\ NotifOnly
  \/ loop_receive /\ NotifOnly
  \/ loop_receive_err /\ NotifOnly
  \/ loop_send /\ NotifOnly
  \/ loop_send_err /\ NotifOnly
  \/ loop_ctrl_c /\ NotifOnly
  \/ rx_recv /\ NotifOnly
  \/ rx_dropped /\ NotifOnly
  \/ transport_fails /\ NotifOnly
  \/ ctrl_c_resolves /\ NotifOnly
  \/ task_close_session /\ NotifOnly
  \/ connection_drop /\ NotifOnly

NotifStart ==
  NotifInit /\ Init /\ DriverInit /\ FramerIdle /\ MessageIdle /\ SshIdle

NotifSpec == NotifStart /\ [][NotifNext]_notif_vars

\* The same task under the scheduling of the runtime: a branch of select!
\* that can complete is polled and completes.
NotifLive ==
  /\ NotifSpec
  /\ WF_notif_vars(loop_receive_err)
  /\ WF_notif_vars(loop_send_err)
  /\ WF_notif_vars(loop_ctrl_c)

\* exec and the host tasks it spawns.
DriverNext ==
  \/ fanout /\ DriverOnly
  \/ collect /\ DriverOnly
  \/ exec_returns /\ DriverOnly
  \/ \E h \in Hosts : task_connect(h) /\ DriverOnly
  \/ \E h \in Hosts : task_transport(h) /\ DriverOnly
  \/ \E h \in Hosts : task_hello(h) /\ DriverOnly
  \/ \E h \in Hosts : task_handler(h) /\ DriverOnly
  \/ \E h \in Hosts : task_close(h) /\ DriverOnly
  \/ \E h \in Hosts : task_drop(h) /\ DriverOnly

DriverStart ==
  DriverInit /\ Init /\ NotifInit /\ FramerIdle /\ MessageIdle /\ SshIdle

DriverSpec == DriverStart /\ [][DriverNext]_driver_vars

\* One framer, its channel and the calls of its owner.
FramerNext ==
  \/ deliver /\ FramerOnly
  \/ peer_close /\ FramerOnly
  \/ read_async_call /\ FramerOnly
  \/ read_eom_fill /\ FramerOnly
  \/ read_eom_eof /\ FramerOnly
  \/ read_header /\ FramerOnly
  \/ read_header_byte /\ FramerOnly
  \/ read_chunk /\ FramerOnly
  \/ write_async_call /\ FramerOnly
  \/ write_all /\ FramerOnly
  \/ framer_upgrade /\ FramerOnly
  \/ write_xml /\ FramerOnly
  \/ read_xml_call /\ FramerOnly
  \/ read_xml_fill /\ FramerOnly
  \/ read_xml_header /\ FramerOnly
  \/ read_xml_header_byte /\ FramerOnly
  \/ read_xml_chunk /\ FramerOnly

FramerStart ==
  FramerInit /\ Init /\ NotifInit /\ DriverInit /\ MessageIdle /\ SshIdle

FramerSpec == FramerStart /\ [][FramerNext]_framer_vars

\* A caller of the message types: one filter built and printed in an
\* envelope, or one datastore name parsed.
MessageNext ==
  \/ filter_subtree /\ MessageOnly
  \/ rpc_to_string /\ MessageOnly
  \/ datastore_parse /\ MessageOnly
  \/ run_rpc /\ MessageOnly

MessageStart ==
  MessageInit /\ Init /\ NotifInit /\ DriverInit /\ FramerIdle /\ SshIdle

MessageSpec == MessageStart /\ [][MessageNext]_message_vars

\* One host's SSH session, from authentication to Transport::close.
SshNext ==
  \/ userauth_password /\ SshOnly
  \/ agent_userauth /\ SshOnly
  \/ connect_ssh_returns /\ SshOnly
  \/ connect_internal /\ SshOnly
  \/ Connection_new /\ SshOnly
  \/ ssh_close /\ SshOnly
  \/ ssh_close_step /\ SshOnly

SshStart ==
  SshInit /\ Init /\ NotifInit /\ DriverInit /\ FramerIdle /\ MessageIdle

SshSpec == SshStart /\ [][SshNext]_ssh_vars

(***************************************************************************)
(* Properties.                                                             *)
(***************************************************************************)
\* The public operations that return the reply text.
RpcEnvelopes == Envelopes \ {"create-subscription"}
\* The public operations that do not end the session.
OpenEnvelopes == RpcEnvelopes \ ClosingEnvelopes

\* C1: on one session at most one request frame has been written whose
\* reply frame has not been read yet.
C1_AtMostOneOutstanding == unread <= 1

\* C2: once a close-session or kill-session envelope was sent, no later call
\* of a public operation writes an envelope to the transport.
C2_NoWriteAfterClose ==
  ~(last_io.ev = "write" /\ last_io.by = "user" /\ last_io.postclose)

\* C3: after Connection::new returned Ok, no step changes the framing mode,
\* and every write and read of the session uses that one mode.
C3_FramingFixed ==
  [][new_result = "Ok" =>
       /\ upgraded' = upgraded
       /\ last_io' # last_io => last_io'.mode = FramingMode(upgraded)]_vars

C3_Witness ==
  /\ new_result = "Ok"
  /\ calls >= 2
  /\ last_io.ev = "read"
  /\ last_io.kind \in RpcEnvelopes
  /\ last_io.mode = "1.1"

\* C4: after Connection::new returned Ok the framer is in 1.1 mode exactly
\* when the peer's hello held the capability base:1.1, the client having
\* advertised base:1.0 and base:1.1.
C4_UpgradedIffBothBase11 ==
  new_result = "Ok" =>
    /\ {NETCONF_BASE_10_CAP, NETCONF_BASE_11_CAP} \subseteq HelloNew.capabilities
    /\ upgraded <=> (NETCONF_BASE_11_CAP \in hello_response[1].caps)

C4_Witness ==
  /\ new_result = "Ok"
  /\ ~upgraded
  /\ hello_response[1].caps = {NETCONF_BASE_10_CAP, BASE_11_SUFFIXED}

\* C5: the client's hello is written and the peer's hello read with 1.0
\* framing whatever is advertised; the framer switches to 1.1 only in the
\* step that decodes the completely read peer hello, before any rpc envelope
\* is written, so that the first rpc envelope already uses the negotiated
\* mode.
C5_HelloIn10ThenSwitch ==
  /\ [](/\ last_io.kind = "hello" => last_io.mode = "1.0"
        /\ pc \in {"start", "hello_read", "hello_decode"} => ~upgraded
        /\ (new_result = "Ok" /\ last_io.kind \in Envelopes) =>
             last_io.mode =
               FramingMode(NETCONF_BASE_11_CAP \in hello_response[1].caps))
  /\ [][upgraded' # upgraded =>
          /\ pc = "hello_decode"
          /\ hello_io.w = "ok" /\ hello_io.r = "ok" /\ hello_io'.d = "ok"
          /\ last_io = last_io' /\ last_io.ev = "read" /\ last_io.ok
          /\ rpc_writes' = 0]_vars

C5_Witness ==
  /\ new_result = "Ok"
  /\ rpc_writes = 1
  /\ last_io.ev = "write"
  /\ last_io.mode = "1.1"
  /\ hello_response[1].caps = {NETCONF_BASE_11_CAP}

\* C6: Connection::new returns a Connection only when the hello write, the
\* hello read and the decoding of the peer's hello all succeeded; when one of
\* them fails new returns an error, the Connection is gone and no public
\* operation was or can be called on it.
C6_NewOnlyAfterHello ==
  /\ new_result = "Ok" =>
       hello_io.w = "ok" /\ hello_io.r = "ok" /\ hello_io.d = "ok"
  /\ "fail" \in {hello_io.w, hello_io.r, hello_io.d} =>
       /\ new_result # "Ok"
       /\ pc \in {"unwind", "rpc_read", "gone"}
       /\ pc = "rpc_read" => in_drop
       /\ calls = 0
       /\ ~ENABLED (get_config \/ get \/ validate \/ commit
                      \/ confirmed_commit \/ close_session \/ kill_session
                      \/ notification)
  /\ new_result = "Err" =>
       pc = "gone" /\ "fail" \in {hello_io.w, hello_io.r, hello_io.d}
  /\ pc \in {"idle", "notif"} => new_result = "Ok"

C6_Witness ==
  /\ new_result = "Err"
  /\ hello_io = [w |-> "ok", r |-> "ok", d |-> "fail"]

\* The last public operation has read its reply frame successfully and
\* returned (notification: its create-subscription returned to it, and the
\* receive loop may have run and ended since).
ReturnedAfterRead(envelopes) ==
  /\ pc \in {"idle", "notif"}
  /\ last_io.ev = "read"
  /\ last_io.by = "user"
  /\ last_io.kind \in envelopes
  /\ last_io.ok

\* C7: an operation called with skip_serializing = false whose frame write
\* and frame read succeeded returns a NETCONF error wrapping the decoded
\* reply exactly when the reply decodes and holds at least one rpc-error,
\* the reply text itself when it decodes with no rpc-error, and a decode
\* error when it does not decode.
C7_ReplyClassification ==
  (ReturnedAfterRead(Envelopes) /\ ~pre[4]) =>
    LET t == last_io.text[1] IN
      /\ result.tag = "Netconf" <=> (t.wf /\ t.nerr >= 1)
      /\ result.tag = "Netconf" =>
           /\ result.reply.rpc_error = Some(t.nerr)
           /\ result.reply.ok = IF t.okmark THEN Some(TRUE) ELSE None
      /\ (t.wf /\ t.nerr = 0 /\ last_io.kind \in RpcEnvelopes) =>
           result = Ok(t)
      /\ ~t.wf <=> result.tag = "SerializingFailure"

C7_Witness ==
  /\ ReturnedAfterRead(RpcEnvelopes)
  /\ ~pre[4]
  /\ result.tag = "Netconf"
  /\ last_io.text[1].okmark
  /\ last_io.text[1].nerr = MaxErrors

\* C8: whenever an operation returns Ok, the string is the text read_async
\* returned for its reply, not a re-serialised form; with skip_serializing
\* set, every operation whose write and read succeeded returns that text,
\* also when it holds rpc-error records or is not well-formed.
C8_RawReplyReturned ==
  /\ (result.tag = "Ok" /\ ~drop_io.ran) =>
       /\ pc = "idle"
       /\ ReturnedAfterRead(RpcEnvelopes)
       /\ result.text = last_io.text
  /\ (ReturnedAfterRead(RpcEnvelopes) /\ pre[4]) =>
       result = Ok(last_io.text[1])

C8_Witness ==
  /\ ReturnedAfterRead(RpcEnvelopes)
  /\ pre[4]
  /\ result.tag = "Ok"
  /\ ~result.text[1].wf
  /\ result.text[1].nerr > 0

\* A get, get_config, validate, commit or confirmed_commit has just failed
\* with a NETCONF error.
AfterNetconfError ==
  /\ pc = "idle"
  /\ ReturnedAfterRead(OpenEnvelopes)
  /\ result.tag = "Netconf"

\* C9: when get, get_config, validate, commit or confirmed_commit fails with
\* a NETCONF error, the closed flag, the session id and the framing mode are
\* what they were when it was called; the step that reads the reply leaves
\* the session in the same state whatever the reply was, and the next
\* operation can be called and is written in the same framing.
C9_NetconfErrorLeavesSession ==
  /\ [](AfterNetconfError =>
          /\ <<is_closed, session_id, upgraded>> = <<pre[1], pre[2], pre[3]>>
          /\ calls < MaxOps =>
               ENABLED get /\ ENABLED get_config /\ ENABLED validate
               /\ ENABLED commit /\ ENABLED confirmed_commit)
  /\ [][(pc = "rpc_read" /\ ~in_drop /\ cur \in OpenEnvelopes) =>
          /\ pc' = "idle"
          /\ cur' = "none"
          /\ UNCHANGED <<is_closed, session_id, upgraded, skip_serializing,
                         sent_close, rpc_writes>>]_vars
  /\ [][(AfterNetconfError /\ calls' = calls + 1) =>
          /\ last_io'.ev = "write"
          /\ last_io'.by = "user"
          /\ last_io'.mode = FramingMode(pre[3])
          /\ last_io'.ok => pc' = "rpc_read"]_vars

C9_Witness ==
  /\ AfterNetconfError
  /\ calls = 2
  /\ upgraded
  /\ session_id = Some(69)

\* The close-session that Drop ran has failed: its write, its read, or its
\* reply.
DropCloseFailed ==
  \/ ~last_io.ok
  \/ /\ last_io.ev = "read"
     /\ IsErr(run_rpc_result(skip_serializing, last_io.text[1]))

\* C10: when a Connection is dropped whose owner never called close_session
\* or kill_session (is_closed = false), exactly one close-session envelope
\* is written, and a failure of it is logged and changes nothing the owner
\* was returned; when one of them was called, whatever its outcome,
\* is_closed is true and the drop writes nothing.
C10_DropClosesOnce ==
  drop_io.ran =>
    LET writes == rpc_writes - drop_io.writes_before IN
      /\ drop_io.was_closed = drop_io.called
      /\ pc \in {"rpc_read", "gone"}
      /\ result = drop_io.result_before
      /\ drop_io.called => (writes = 0 /\ pc = "gone" /\ logged = 0)
      /\ ~drop_io.called =>
           /\ writes = 1
           /\ last_io.by = "drop"
           /\ last_io.kind = "close-session"
           /\ pc = "rpc_read" => (last_io.ev = "write" /\ last_io.ok)
           /\ pc = "gone" => logged = (IF DropCloseFailed THEN 1 ELSE 0)

C10_Witness ==
  /\ drop_io.ran
  /\ ~drop_io.called
  /\ new_result = "Ok"
  /\ calls > 0
  /\ pc = "gone"
  /\ last_io.ev = "read"
  /\ logged = 1

(***************************************************************************)
(* The notification loop: properties of NotifSpec and NotifLive.           *)
(***************************************************************************)
\* C11: while the receive loop runs, the messages read from the transport
\* are the messages the sink accepted, each once and in the order read,
\* followed by the one message being handed over; and what a live sink
\* accepted is what it received followed by what the channel still queues.
C11_HandedOnceInOrder ==
  task \in LoopTasks =>
    /\ received = sent \o (IF task = "send" THEN <<resp[1]>> ELSE << >>)
    /\ rx = "open" => sent = delivered \o channel

\* Several messages went through the loop, the channel and the sink.
C11_Witness ==
  /\ task \in LoopTasks
  /\ Len(sent) >= 2
  /\ Len(delivered) >= 1
  /\ channel # << >>

\* The termination causes of the loop, at the await where the loop meets
\* them.
SinkRejects == task = "send" /\ rx = "dropped"
ReadFails == task = "receive" /\ transport = "failed"
InterruptFires == task \in LoopTasks /\ ctrl_c = "fired"
ListenerFails == task \in LoopTasks /\ ctrl_c = "failed"
LoopOver == task \in {"returned", "closed", "ended"}
LoopReturns == task \in LoopTasks /\ task' \notin LoopTasks

C13_NoWriteAfterSubscription ==
  entered => written = <<"create-subscription">>

(***************************************************************************)
(* The driver: properties of DriverSpec.                                   *)
(***************************************************************************)
TaskStep(h) ==
  \/ task_connect(h)
  \/ task_transport(h)
  \/ task_hello(h)
  \/ task_handler(h)
  \/ task_close(h)
  \/ task_drop(h)

\* C14: a task that fails, at connect, authentication, hello, in the
\* handler or at close-session, stops no other host: exec returns an error
\* only when Host::new refused a host's parameters, and otherwise it
\* returns after every host was spawned, every task ended and every
\* result was collected.
C14_TaskFailuresStayLocal ==
  /\ driver.result = "Err" => driver.rejected # 0
  /\ driver.pc = "collect" =>
       \A h \in Hosts : tasks[h].pc # "unspawned" /\ h \in driver.futures
  /\ driver.pc = "returned" /\ driver.rejected = 0 =>
       /\ driver.result = "Ok"
       /\ \A h \in Hosts : tasks[h].pc = "ended" /\ h \in driver.collected

\* exec returned after collecting a task that failed before it had a
\* session, one that failed with a session, or both next to one that
\* succeeded.
C14_Witness ==
  /\ driver.pc = "returned"
  /\ driver.rejected = 0
  /\ \E h, g \in Hosts :
       /\ tasks[h].result = "Err"
       /\ tasks[g].result = "Ok"
       /\ {h, g} \subseteq driver.collected

\* C15: a task that constructed its Connection writes at most one
\* close-session envelope on it, and has written exactly one when it ends.
C15_OneCloseSessionPerTask ==
  \A h \in Hosts :
     tasks[h].constructed =>
       /\ tasks[h].closes <= 1
       /\ tasks[h].pc = "ended" => tasks[h].closes = 1

\* One task ended after its handler and close_session succeeded, another
\* ended with an error, both with a session and one close-session.
C15_Witness ==
  \E h, g \in Hosts :
     /\ tasks[h].pc = "ended" /\ tasks[g].pc = "ended"
     /\ tasks[h].constructed /\ tasks[g].constructed
     /\ tasks[h].result = "Ok" /\ tasks[g].result = "Err"
     /\ tasks[h].closes = 1 /\ tasks[g].closes = 1

\* C16: each session holds the session id of its own hello and bytes of
\* its own peer only; a step changes the state of at most one session; and
\* a task that has not ended can take its next step whatever the other
\* tasks are doing.
C16_SessionsIndependent ==
  /\ [](\A h \in Hosts :
          /\ tasks[h].session_id = tasks[h].hello_id
          /\ \A i \in 1..Len(tasks[h].read_buffer) :
                tasks[h].read_buffer[i] = h
          /\ tasks[h].pc \notin {"unspawned", "ended"} => ENABLED TaskStep(h))
  /\ [][\A h, g \in Hosts :
          tasks'[h] # tasks[h] /\ g # h => tasks'[g] = tasks[g]]_driver_vars

\* Two sessions are open at once, with different session ids and different
\* framings.
C16_Witness ==
  \E h, g \in Hosts :
     /\ tasks[h].pc \in {"handler", "close"}
     /\ tasks[g].pc \in {"handler", "close"}
     /\ tasks[h].session_id # tasks[g].session_id
     /\ tasks[h].upgraded /\ ~tasks[g].upgraded

(***************************************************************************)
(* Properties of the framers.                                              *)
(***************************************************************************)
IsPrefix(s, t) == Len(s) <= Len(t) /\ SubSeq(t, 1, Len(s)) = s

\* str without the whitespace at its end.
WithoutTrailingWhitespace(str) ==
  LET k == CHOOSE k \in 0..Len(str) :
             /\ k = 0 \/ ~is_whitespace(str[k])
             /\ \A j \in (k + 1)..Len(str) : is_whitespace(str[j])
  IN  SubSeq(str, 1, k)

\* The bytes of a written payload in its framing.
Framing(up, payload) ==
  IF up
    THEN <<LF, "#">> \o Decimal(Len(as_bytes(payload))) \o <<LF>>
           \o as_bytes(payload) \o <<LF, "#", "#", LF>>
    ELSE as_bytes(payload) \o <<"]", "]", ">", "]", "]", ">">>

\* What the framer of one crate wrote is, at every moment, the beginning of
\* the framing of its payload, and the whole of it once the write returned
\* Ok.
WrittenIsFraming(crate) ==
  input.crate = crate /\ input.scene \in {"write", "roundtrip"} =>
    /\ IsPrefix(wire.written, Framing(input.upgraded, input.rpc))
    /\ returned # << >> /\ returned[1].tag = "Unit" =>
         wire.written = Framing(input.upgraded, input.rpc)

\* C17: a write emits exactly the framing of its payload P: in 1.0 P
\* verbatim and then the six bytes ]]>]]>, in 1.1 "\n#", the decimal byte
\* length of P, "\n", P and "\n##\n"; nothing else is written and P is not
\* altered.
C17_WriteEmitsTheFraming == \A crate \in Crates : WrittenIsFraming(crate)

\* The position of the first terminator of a byte string, from 0, or -1.
FirstEom(bytes) ==
  LET hits == {p \in 0..(Len(bytes) - 6) :
                 SubSeq(bytes, p + 1, p + 6) = <<"]", "]", ">", "]", "]", ">">>}
  IN  IF hits = {} THEN -1 ELSE CHOOSE p \in hits : \A q \in hits : p <= q

\* The messages of a 1.0 stream: what precedes each terminator in turn.
RECURSIVE EomMessages(_)
EomMessages(bytes) ==
  IF FirstEom(bytes) = -1 THEN << >>
  ELSE <<SubSeq(bytes, 1, FirstEom(bytes))>>
         \o EomMessages(SubSeq(bytes, FirstEom(bytes) + 7, Len(bytes)))

\* A 1.0 stream behind its first n messages and their terminators.
RECURSIVE EomRest(_, _)
EomRest(bytes, n) ==
  IF n = 0 THEN bytes
  ELSE EomRest(SubSeq(bytes, FirstEom(bytes) + 7, Len(bytes)), n - 1)

\* C18: in 1.0 mode the i-th read_async returns what precedes the i-th
\* terminator of the received stream, without its trailing whitespace, and
\* the reads consume exactly those bytes and their terminators: the rest
\* of the stream is in the read buffer or still on the channel, nothing
\* lost and nothing twice.
C18_EomReadsCutTheStream ==
  input.crate = "netconf-async" /\ input.scene = "read" /\ ~input.upgraded =>
    LET msgs == EomMessages(input.stream)
        n == Len(returned) IN
    /\ n <= Len(msgs)
    /\ \A i \in 1..n :
         returned[i] =
           FrameOk(WithoutTrailingWhitespace(from_utf8_lossy(msgs[i])))
    /\ framer.read_buffer \o wire.arrived \o wire.pending
         = EomRest(input.stream, n)

\* A read returned "a" for the body "a\n" while bytes behind its
\* terminator were already in the read buffer.
C18_Witness ==
  /\ input.crate = "netconf-async" /\ input.scene = "read" /\ ~input.upgraded
  /\ input.chunks[1] = <<"a", LF>>
  /\ returned = <<FrameOk(<<"a">>)>>
  /\ call.op = "none"
  /\ framer.read_buffer # << >>

\* The first read of a chunked stream by the framer of one crate returns
\* the payload bytes of the chunks in order, without trailing whitespace,
\* and ends at the end-of-chunks marker.
ChunkedReadReturnsPayload(crate) ==
  input.crate = crate /\ input.scene = "read" /\ input.upgraded
    /\ returned # << >> =>
    /\ returned[1] = FrameOk(WithoutTrailingWhitespace(
                               from_utf8_lossy(Concat(input.chunks))))
    /\ Len(returned) = 1 /\ call.op = "none" =>
         /\ framer.read_buffer = << >>
         /\ wire.arrived \o wire.pending = input.tail

\* C19: in 1.1 mode, for every well-formed chunked message and every way
\* its bytes are split across reads, the read returns the concatenation of
\* the declared payload bytes of each chunk, in order, with trailing
\* whitespace removed, ending at the end-of-chunks marker.
C19_ChunkedReadForEverySplit ==
  \A crate \in Crates : ChunkedReadReturnsPayload(crate)

\* C20: a message M written by a 1.1 framer and read back from the same
\* stream by a 1.1 framer is M without its trailing whitespace, and so is
\* M read from chunks of size 1.
C20_ChunkedRoundTrip ==
  /\ input.scene = "roundtrip" /\ Len(returned) >= 2 =>
       returned[2] = FrameOk(WithoutTrailingWhitespace(input.rpc))
  /\ input.crate = "netconf-async" /\ input.scene = "read" /\ input.upgraded
       /\ returned # << >>
       /\ (\A i \in 1..Len(input.chunks) : Len(input.chunks[i]) = 1) =>
       \A M \in StringsUpTo(Chars, MaxLen) :
         as_bytes(M) = Concat(input.chunks) =>
           returned[1] = FrameOk(WithoutTrailingWhitespace(M))

\* A message with an "é" and a line feed at its end went round.
C20_Witness ==
  /\ input.scene = "roundtrip"
  /\ input.rpc = <<"é", LF>>
  /\ Len(returned) = 2
  /\ returned[2] = FrameOk(<<"é">>)

(***************************************************************************)
(* Properties of the messages.                                             *)
(***************************************************************************)
\* text holds part as a run of consecutive elements.
Contains(text, part) ==
  \E i \in 0..(Len(text) - Len(part)) :
    SubSeq(text, i + 1, i + Len(part)) = part

\* The text of the envelope between the filter's opening and closing tag.
FilterBody(text) ==
  LET open == CHOOSE i \in 1..Len(text) : text[i] = FILTER_OPEN
      close == CHOOSE j \in 1..Len(text) : text[j] = FILTER_CLOSE
  IN SubSeq(text, open + 1, close - 1)

\* The envelope of operation op holds the trimmed filter string as it was
\* given, between the tags of the filter.
FilterIsVerbatim(op) ==
  /\ message_in.fn = "to_string" /\ message_in.op = op
  /\ message_out.stage = "done"
  /\ (\A i \in 1..Len(message_in.s) : message_in.s[i] # BACKSLASH)
  /\ trim(message_in.s) # << >>
  => /\ \E i \in 1..Len(message_out.wire) : message_out.wire[i] = FILTER_OPEN
     /\ \E j \in 1..Len(message_out.wire) : message_out.wire[j] = FILTER_CLOSE
     /\ Contains(FilterBody(message_out.wire), trim(message_in.s))

\* C21: for get, get-config and create-subscription the envelope holds the
\* filter un-escaped: for every filter string S without backslashes,
\* S.trim() stands verbatim between <filter type="subtree"> and </filter>.
C21_FilterUnescapedOnTheWire ==
  \A op \in FilterOperations : FilterIsVerbatim(op)

\* C22: a string that is running, candidate or startup in any casing
\* parses to that variant; another string whose lowercase form begins with
\* http, file or ftp parses to Url of the string as it was given; every
\* other string is an UnknownDatastore error with the expected set
\* running, candidate, startup, ftp|http|file.
C22_DatastoreParsing ==
  message_in.fn = "from_str" /\ message_out.stage = "done" =>
    LET s == message_in.s
        lower == to_lowercase(s)
        parsed == message_out.datastore IN
    IF lower = RUNNING THEN parsed.tag = "Running"
    ELSE IF lower = CANDIDATE THEN parsed.tag = "Candidate"
    ELSE IF lower = STARTUP THEN parsed.tag = "Startup"
    ELSE IF \E scheme \in {HTTP, FILE, FTP} : starts_with(lower, scheme)
      THEN parsed.tag = "Url" /\ parsed.url = s
    ELSE /\ parsed.tag = "UnknownDatastore"
         /\ parsed.expected = ExpectedDatastores

ChunkedAwaits == {"header", "size", "payload", "chunked"}

\* C24: every read_async and write_async that starts after upgrade()
\* returned frames in 1.1, and a call keeps the mode it started with until
\* it returns; a write that started after upgrade() and returned Ok wrote
\* the chunked framing of its message and nothing else.
C24_CallsAfterUpgradeAreChunked ==
  /\ [](input.scene = "upgrade"
          /\ (\E i \in 1..Len(returned) : returned[i] = FrameUpgraded) =>
        /\ framer.upgraded
        /\ call.op # "none" => call.pc \in ChunkedAwaits
        /\ returned = <<FrameUpgraded, FrameUnit>> /\ call.op = "none" =>
             wire.written = Framing(TRUE, input.rpc))
  /\ [][call.op # "none" /\ call'.op # "none" =>
          (call.pc \in ChunkedAwaits <=> call'.pc \in ChunkedAwaits)]_framer_vars

\* After a read in 1.0 and an upgrade, a write has put the first part of
\* its chunked framing on the channel.
C24_Witness ==
  /\ input.scene = "upgrade"
  /\ returned = <<FrameOk(<<"a">>), FrameUpgraded>>
  /\ call.op = "write" /\ call.pc = "chunked" /\ call.part = 2

\* What a string is without its leading whitespace.
WithoutLeadingWhitespace(str) ==
  LET kept == {k \in 1..Len(str) : ~is_whitespace(str[k])} IN
  IF kept = {} THEN << >>
  ELSE SubSeq(str, CHOOSE k \in kept : \A j \in kept : k <= j, Len(str))

\* What the 1.0 read of one crate returns for the bytes before a
\* terminator: the text without its trailing whitespace, and in
\* netconf-rust without its leading whitespace as well.
EomReturnOf(crate, bytes) ==
  IF crate = "netconf-async"
    THEN FrameOk(WithoutTrailingWhitespace(from_utf8_lossy(bytes)))
    ELSE FrameOk(WithoutLeadingWhitespace(
                   WithoutTrailingWhitespace(from_utf8_lossy(bytes))))

\* C25: what a 1.0 read returns is decided by the bytes of the stream and
\* not by how they are split into read results: whatever arrived with
\* whichever read, terminator bytes in separate reads included, the i-th
\* read returns the message before the i-th terminator.
C25_EomReadForEverySplit ==
  input.scene = "read" /\ ~input.upgraded =>
    /\ Len(returned) <= Len(EomMessages(input.stream))
    /\ \A i \in 1..Len(returned) :
         returned[i] = EomReturnOf(input.crate, EomMessages(input.stream)[i])

\* A read has taken the body and half of the terminator and awaits the
\* other half.
C25_SplitTerminator ==
  /\ input.scene = "read" /\ ~input.upgraded
  /\ input.chunks[1] = <<"a">>
  /\ call.pc = "fill"
  /\ returned = << >>
  /\ framer.read_buffer = <<"a", "]", "]", ">">>

\* The bytes of the stream that the reads have taken off the channel.
Consumed ==
  SubSeq(input.stream, 1,
         Len(input.stream) - Len(wire.arrived) - Len(wire.pending))

\* The malformed-chunk error that names the character expected and the
\* character found.
MalformedChunkNaming(expected, actual) ==
  [tag |-> "MalformedChunk", value |-> << >>, expected |-> expected,
   actual |-> actual]

\* C26: in the chunk header a wrong first byte fails the read with
\* MalformedChunk expecting '\n', a wrong second byte with MalformedChunk
\* expecting '#', and behind "\n#" the first byte that is no digit, no
\* '\n' and no '#' with MalformedChunk expecting a digit; the error names
\* the byte found and no length is returned.
C26_MalformedHeaderIsNamed ==
  input.crate = "netconf-async" /\ input.scene = "header"
    /\ returned # << >> /\ Len(input.stream) >= 2 =>
    LET s == input.stream IN
    IF s[1] # LF THEN returned[1] = MalformedChunkNaming(LF, s[1])
    ELSE IF s[2] # "#" THEN returned[1] = MalformedChunkNaming("#", s[2])
    ELSE \A j \in 3..Len(s) :
           /\ \A i \in 3..(j - 1) : is_ascii_digit(s[i]) \/ s[i] = "#"
           /\ ~is_ascii_digit(s[j]) /\ s[j] # LF /\ s[j] # "#"
           => /\ returned[1] = MalformedChunkNaming("0", s[j])
              /\ Consumed = SubSeq(s, 1, j)

\* A letter among the digits of a length was reported.
C26_Witness ==
  /\ input.crate = "netconf-async" /\ input.scene = "header"
  /\ input.stream = <<LF, "#", "1", "a">>
  /\ returned = <<MalformedChunkNaming("0", "a")>>

\* The chunk header grammar: "\n#", then digits and "\n", or "#" and "\n".
InHeaderGrammar(header) ==
  /\ Len(header) >= 4
  /\ header[1] = LF /\ header[2] = "#" /\ header[Len(header)] = LF
  /\ \/ \A i \in 3..(Len(header) - 1) : is_ascii_digit(header[i])
     \/ SubSeq(header, 3, Len(header) - 1) = <<"#">>

\* C27: read_header returns a length only for the bytes of the chunk
\* header grammar: when the first header of a stream is read and a length
\* comes back (a chunk is awaited, or the read returns the end of the
\* message), the bytes taken off the stream are "\n#", digits, "\n" or
\* "\n##\n".
C27_HeaderGrammarOnly ==
  [][/\ input.scene = "header"
     /\ call.pc = "size" /\ returned = << >> /\ framer.read_buffer = << >>
     /\ \/ call'.pc = "payload"
        \/ returned' # << >> /\ returned'[1].tag = "Ok"
     => InHeaderGrammar(Consumed')]_framer_vars

(***************************************************************************)
(* Properties of the subscription and of the pairing of replies.           *)
(***************************************************************************)
\* A reply that decodes and carries no rpc-error.
ReplyIsSuccess(text) == text.wf /\ text.nerr = 0

\* One step of a session seen from notification().  parsed says whether
\* the reply to create-subscription is examined.  The receive loop is
\* entered only from the read of that reply, when the read succeeded and
\* the reply is a success; a failed write, a failed read and a reply that
\* is no success return an error with nothing handed to the sink; and the
\* loop's reads and the sink's messages occur inside the loop only.
SubscriptionStep(parsed) ==
  /\ pc # "notif" /\ pc' = "notif" =>
       /\ pc = "rpc_read" /\ cur = "create-subscription"
       /\ last_io'.ev = "read" /\ last_io'.kind = "create-subscription"
       /\ last_io'.ok
       /\ parsed => ReplyIsSuccess(last_io'.text[1])
  /\ pc = "rpc_read" /\ cur = "create-subscription" =>
       IF ~last_io'.ok
         THEN pc' = "idle" /\ result' = ErrIo /\ sunk' = 0
       ELSE IF parsed /\ ~ReplyIsSuccess(last_io'.text[1])
         THEN /\ pc' = "idle" /\ sunk' = 0
              /\ result'.tag = IF last_io'.text[1].wf
                                 THEN "Netconf" ELSE "SerializingFailure"
       ELSE pc' = "notif"
  /\ pc = "idle" /\ last_io' # last_io /\ last_io'.ev = "write"
       /\ last_io'.kind = "create-subscription" /\ ~last_io'.ok =>
       pc' = "idle" /\ result' = ErrIo /\ sunk' = 0
  /\ (last_io' # last_io /\ last_io'.kind = "notification") \/ sunk' > sunk =>
       pc = "notif"

\* C28: notification() enters the receive loop only after a successful
\* create-subscription reply; when the write or the read fails, the reply
\* does not decode or the reply carries rpc-error, notification returns
\* that error, no message is read for the sink and the sink receives
\* nothing.
C28_LoopOnlyAfterSuccessfulReply == [][SubscriptionStep(TRUE)]_vars

\* C28 as it holds: the same, with the decoding failure and the rpc-error
\* counting as failures of create-subscription when reply parsing is
\* enabled; with skip_serializing set every reply that was read is a
\* success and the loop is entered.
C28_LoopOnlyAfterAcceptedReply ==
  [][SubscriptionStep(~skip_serializing)]_vars

\* notification returned the NETCONF error of its create-subscription and
\* nothing reached the sink.
C28_Witness ==
  /\ pc = "idle" /\ result.tag = "Netconf"
  /\ last_io.ev = "read" /\ last_io.kind = "create-subscription"
  /\ sunk = 0

C29_ReturnsAfterEveryTask ==
  driver.pc = "returned" => \A h \in Hosts : tasks[h].pc = "ended"

(***************************************************************************)
(* Properties of one operation's writes and reads.                         *)
(***************************************************************************)
\* C31: nothing is retried: a step hands at most one envelope to the
\* framer, and only the step that starts an operation (a call of the owner,
\* or Drop) does; a failed frame write returns at once, with no read; the
\* one framed read of an operation returns whatever it read, and neither
\* it nor a failed decoding writes an envelope again.
C31_NothingIsRetried ==
  [][/\ rpc_writes' # rpc_writes =>
          /\ rpc_writes' = rpc_writes + 1
          /\ pc \in {"idle", "unwind"}
          /\ calls' = calls + 1 \/ (~drop_io.ran /\ drop_io'.ran)
          /\ last_io'.ev = "write"
          /\ ~last_io'.ok => pc' \in {"idle", "gone"}
     /\ pc = "rpc_read" =>
          /\ last_io'.ev = "read"
          /\ rpc_writes' = rpc_writes
          /\ pc' # "rpc_read"
     /\ last_io' # last_io /\ last_io'.ev = "read"
          /\ last_io'.kind \notin {"hello", "notification"} =>
          pc = "rpc_read"]_vars

\* The one operation called wrote its envelope once, the write failed, and
\* the operation returned the Io error.
C31_Witness ==
  /\ pc = "idle" /\ calls = 1 /\ rpc_writes = 1
  /\ last_io.ev = "write" /\ ~last_io.ok
  /\ result = ErrIo

\* C32: close_session hands its envelope to the framer and, when the frame
\* was written, returns only from the read of one reply frame: Ok with the
\* reply, the Io error of a failed read, and with reply parsing enabled the
\* NETCONF error of a reply with rpc-error or the decoding failure; a
\* failed write returns its Io error.  From the call on, in every outcome,
\* the closed flag is true.
C32_CloseSessionReadsItsReply ==
  [][/\ last_io' # last_io /\ last_io'.kind = "close-session"
          /\ last_io'.by = "user" /\ last_io'.ev = "write" =>
          /\ pc = "idle" /\ is_closed'
          /\ IF last_io'.ok
               THEN pc' = "rpc_read" /\ result' = Pending
               ELSE pc' = "idle" /\ result' = ErrIo
     /\ pc = "rpc_read" /\ cur = "close-session" /\ ~in_drop =>
          /\ is_closed /\ is_closed'
          /\ last_io.ev = "write" /\ last_io.ok
          /\ last_io'.ev = "read" /\ last_io'.kind = "close-session"
          /\ pc' = "idle"
          /\ IF ~last_io'.ok THEN result' = ErrIo
             ELSE IF skip_serializing THEN result'.tag = "Ok"
             ELSE IF ~last_io'.text[1].wf
               THEN result'.tag = "SerializingFailure"
             ELSE IF last_io'.text[1].nerr > 0 THEN result'.tag = "Netconf"
             ELSE result'.tag = "Ok" /\ result'.text = last_io'.text]_vars

\* close_session returned the NETCONF error of its reply, the session
\* closed.
C32_Witness ==
  /\ pc = "idle" /\ is_closed
  /\ last_io.ev = "read" /\ last_io.kind = "close-session"
  /\ last_io.by = "user"
  /\ result.tag = "Netconf"

\* The names of the calls close has made, in order.
CloseStepNames == [i \in DOMAIN ssh.steps |-> ssh.steps[i].step]

\* C33: the calls of Transport::close on a channel are made on the channel
\* bound to the netconf subsystem, the one the transport reads and writes;
\* the calls come in the order send EOF, wait for the peer's EOF, close the
\* channel, disconnect the session by-application with reason "Shutdown";
\* a call is made only after every earlier one succeeded, and close
\* returns Ok exactly when all of them did.
C33_CloseOnNetconfChannel ==
  /\ \A i \in DOMAIN ssh.steps :
       ssh.steps[i].step # "disconnect" =>
         /\ ssh.steps[i].channel = ssh.channel
         /\ ssh.channels[ssh.steps[i].channel].subsystem = "netconf"
  /\ IsPrefix(CloseStepNames, CloseSteps)
  /\ \A i \in 1..(Len(ssh.steps) - 1) : ssh.steps[i].ok
  /\ ssh.disconnect \in {<< >>, <<"ByApplication", "Shutdown">>}
  /\ ssh.pc = "returned" =>
       (ssh.result = "Ok" <=>
          /\ Len(ssh.steps) = Len(CloseSteps)
          /\ \A i \in DOMAIN ssh.steps : ssh.steps[i].ok)

\* C34: the agent's identities go to userauth one at a time in list order
\* and none after the first one the server accepted; a session none of
\* whose identities was accepted has no channel and no hello on it, and
\* once the connect function and the transport constructor are behind it
\* its task has ended with an error.
C34_AgentAuthentication ==
  ssh_in.method = "agent" =>
    /\ \A i \in DOMAIN ssh.tried : ssh.tried[i] = i
    /\ \A i \in 1..(Len(ssh.tried) - 1) : ssh.tried[i] \notin ssh_in.accepts
    /\ ssh.authenticated <=>
         \E i \in DOMAIN ssh.tried : ssh.tried[i] \in ssh_in.accepts
    /\ ~ssh.authenticated =>
         /\ ssh.channels = << >>
         /\ ssh.channel = 0
         /\ ~ssh.hello
         /\ ssh.pc \in {"auth", "session", "failed"}
         /\ ssh.pc = "failed" => ssh.result = "Err"
         /\ ssh.pc = "session" =>
              /\ ssh_in.gen = "netconf-async"
              /\ Len(ssh.tried) = ssh_in.identities

\* The server accepted none of at least two identities: each was tried,
\* connect_ssh of config.rs returned the session, and the task ended with
\* the error of connect_internal.
C34_Witness ==
  /\ ssh_in.method = "agent" /\ ssh_in.gen = "netconf-async"
  /\ ssh_in.identities >= 2 /\ ssh_in.accepts = {}
  /\ Len(ssh.tried) = ssh_in.identities
  /\ ssh.pc = "failed" /\ ssh.result = "Err"

\* A string with every backslash dropped and the character after it kept;
\* a backslash that ends the string has nothing after it to keep.
RECURSIVE Unslashed(_)
Unslashed(chars) ==
  IF chars = << >> THEN << >>
  ELSE IF Head(chars) # BACKSLASH
    THEN <<Head(chars)>> \o Unslashed(Tail(chars))
  ELSE IF Len(chars) = 1 THEN << >>
  ELSE <<chars[2]>> \o Unslashed(Tail(Tail(chars)))

\* C35: Filter::subtree never fails: for every input string, one ending
\* with a backslash included, it returns a filter whose fragment is, up to
\* whitespace at its ends, the trimmed input with every backslash escape
\* \x replaced by x.
C35_SubtreeNeverFails ==
  [][message_in.fn = "to_string" /\ message_out.stage = "input" =>
       /\ message_out'.stage = "filter"
       /\ trim(message_out'.filter) = trim(Unslashed(trim(message_in.s)))
    ]_message_vars

\* C36: a read in 1.1 begins with the read buffer empty, and in the scene
\* "upgrade" a read in 1.1 that returns a message returns the chunked
\* message the peer sent behind its 1.0 message, nothing before it.
C36_ChunkedReadStartsEmpty ==
  [][/\ call.op = "none" /\ call'.op \in {"read", "read_xml"}
          /\ framer.upgraded =>
          framer.read_buffer = << >>
     /\ input.scene = "upgrade" /\ framer.upgraded
          /\ call.op = "read" /\ Len(returned') > Len(returned)
          /\ returned'[Len(returned')].tag = "Ok" =>
          returned'[Len(returned')].value = <<"a">>]_framer_vars

\* C37: a read does not go on forever at the end of the stream: when the
\* peer has closed behind the last byte it sent, a read in progress, 1.0
\* or 1.1, has a step that takes it on: it takes bytes that arrived or it
\* returns, and with nothing left to take it returns its error.
C37_ReadEndsAtEof ==
  (call.op \in {"read", "read_xml"}
     /\ wire.closed /\ wire.pending = << >>) =>
    /\ ENABLED <<FramerNext>>_framer_vars
    /\ (call.pc = "fill" /\ wire.arrived = << >>) =>
         ENABLED (FramerNext /\ call'.op = "none"
                    /\ returned'[Len(returned')].tag = "Io")

\* C38: what a framer in 1.1 wrote onto a stream, a message of any length,
\* the empty one included, is what a read in 1.1 of that stream returns,
\* without its trailing whitespace, and the read leaves no byte of the
\* message's frame unread, so that the next read starts at the next
\* message.
C38_ChunkedRoundTripLeavesNothing ==
  (input.scene = "roundtrip" /\ Len(returned) = 2
     /\ returned[1] = FrameUnit) =>
    /\ returned[2] = FrameOk(WithoutTrailingWhitespace(input.rpc))
    /\ framer.read_buffer = << >>
    /\ wire.arrived \o wire.pending = << >>

\* C39: when hello failed inside Connection::new, at its write, its read
\* or its decoding, no RPC envelope is written to the transport: no
\* close-session goes out on a session that never completed hello.
C39_NoEnvelopeAfterFailedHello ==
  "fail" \in {hello_io.w, hello_io.r, hello_io.d} =>
    /\ rpc_writes = 0
    /\ ~(last_io.ev = "write" /\ last_io.kind = "close-session")

\* The digits of the header a stream begins with, when it begins with a
\* header of the form "\n#" digits "\n".
HeaderDigits(stream) ==
  LET ends == {k \in 3..Len(stream) : stream[k] = LF} IN
  IF Len(stream) < 2 \/ ends = {} THEN None
  ELSE IF SubSeq(stream, 1, 2) # <<LF, "#">> THEN None
  ELSE LET k == CHOOSE k \in ends : \A j \in ends : k <= j
           digits == SubSeq(stream, 3, k - 1) IN
       IF digits # << >> /\ \A i \in DOMAIN digits : is_ascii_digit(digits[i])
         THEN Some(digits) ELSE None

\* The decimal value of a digit string, from the left, as a u32 and
\* whether every prefix of it fits a u32.
RECURSIVE ExactSize(_, _)
ExactSize(digits, acc) ==
  IF digits = << >> THEN acc
  ELSE LET sum == mul10_add(acc.size, DigitValue(Head(digits))) IN
       ExactSize(Tail(digits),
                 [size |-> sum.wrapped, fits |-> acc.fits /\ ~sum.overflow])

\* C40: the chunk length read_header returns for a header is the decimal
\* value of its digits; a header whose value does not fit a u32 is
\* rejected with an error: no length is returned for it, no message, and
\* the call does not panic.
C40_HeaderLengthExact ==
  (input.scene = "header" /\ HeaderDigits(input.stream) # None) =>
    LET exact == ExactSize(HeaderDigits(input.stream)[1],
                           [size |-> Zero32, fits |-> TRUE]) IN
    /\ (call.pc = "payload" /\ framer.read_buffer = << >>) =>
         exact.fits /\ call.chunk_size = exact.size
    /\ ~exact.fits =>
         \A i \in DOMAIN returned : returned[i].tag \notin {"Ok", "panic"}

====
